---------------------------- MODULE Spec2Model ----------------------------
(***************************************************************************)
(* ASL Dictionary API: the translate request handler (src/app.py), the     *)
(* Redis result cache (src/cache.py), the shared-key quota check           *)
(* (src/database.py) and the LangGraph translation workflow                *)
(* (src/python_code/asl_dict_langgraph.py).                                *)
(*                                                                         *)
(* Spec          the HTTP server: request tasks interleave at their await  *)
(*               points; the code between two awaits is one atomic step    *)
(*               of the event loop.                                        *)
(* SpecApp       the same server with the analytics middleware around the  *)
(*               handler.                                                  *)
(* SpecWorkflow  one invocation of the compiled graph, node by node.       *)
(* SpecFeedback  the feedback endpoints and the admin endpoints over the   *)
(*               feedback table.                                           *)
(* SpecAnalytics the analytics table and the popular-searches query.       *)
(* SpecQuota     the analytics table and the quota check over it.          *)
(* SpecConcurrent two request tasks on one event loop.                     *)
(* SpecFair      the server with the shared key, under the scheduling of   *)
(*               the event loop.                                           *)
(***************************************************************************)
EXTENDS Integers, Sequences, FiniteSets, Bags, TLC

(***************************************************************************)
(* Bounds of the model.                                                    *)
(***************************************************************************)
NReq == 1          \* request tasks in flight at once
MaxRequests == 2   \* requests the server receives
MaxLimit == 1      \* largest configured shared_key_daily_limit
MaxTime == 1       \* last tick of the clock
TtlTicks == 1      \* settings.cache_ttl, in clock ticks
TicksPerDay == 1   \* length of a UTC day, in clock ticks
MaxId == 2         \* largest primary key of the feedback table

Reqs == 1..NReq

(***************************************************************************)
(* Python values.                                                          *)
(***************************************************************************)
None == "<None>"           \* None where the values are strings: a key, a message

\* bool(s) of an Optional[str] held as a string.
Truthy(s) == s /= None /\ s /= ""

\* An optional structured value: <<>> is None, <<v>> is the value v.
Nothing == <<>>

Some(v) == <<v>>

IsNone(o) == o = <<>>

Val(o) == o[1]

\* Characters of request texts, with their code points.
Chars == {"H", "h", "i", "y"}

Code(c) == CASE c = "H" -> 72 [] c = "h" -> 104 [] c = "i" -> 105 [] c = "y" -> 121

\* str.lower(), character by character.
LowerChar(c) == IF c = "H" THEN "h" ELSE c

Lower(s) == [i \in 1..Len(s) |-> LowerChar(s[i])]

\* TranslateRequest.text: min_length=1, max_length=500.
MinTextLen == 1
MaxTextLen == 500

ValidText(s) == Len(s) >= MinTextLen /\ Len(s) <= MaxTextLen

\* Request texts: two that differ only in letter case, and a third.
Texts == {<<"h", "i">>, <<"H", "i">>, <<"y">>}

\* The clients: raw addresses as get_remote_address returns them.
IPs == {<<"h">>, <<"i">>}

\* Credentials.
DefaultKey == "K_DEFAULT"
SharedKey == "K_SHARED"
CustomKey == "K_CUSTOM"

(***************************************************************************)
(* hashlib.sha256: a digest of the character codes, injective on the       *)
(* strings of the model (the model has no collisions, as SHA-256 has none  *)
(* in practice).                                                           *)
(***************************************************************************)
RECURSIVE Sha256(_)
Sha256(s) == IF s = <<>> THEN 7
             ELSE (Sha256(SubSeq(s, 1, Len(s) - 1)) * 131 + Code(s[Len(s)])) % (2 ^ 30)

\* hexdigest(): the digest written as 64 hexadecimal characters, the most
\* significant first.
DigestLen == 64

HexChars == <<"0", "1", "2", "3", "4", "5", "6", "7",
              "8", "9", "a", "b", "c", "d", "e", "f">>

\* The k-th hexadecimal digit of n, counted from the least significant (0).
HexDigit(n, k) == IF k >= 8 THEN 0 ELSE (n \div (16 ^ k)) % 16

HexDigest(n) == [i \in 1..DigestLen |-> HexChars[HexDigit(n, DigestLen - i) + 1]]

\* Faulty variant: the raw address is stored.
HashIpRaw(ip) == ip

\* hash_ip: the hex digest of the raw address.
HashIp(ip) == HexDigest(Sha256(ip))

\* Faulty variant: the key is made from the text as typed.
GenerateCacheKeyCaseSensitive(text) == <<"asl:translation", Sha256(text) % (2 ^ 24)>>

\* generate_cache_key: prefix, then the first 16 hex digits of the digest of
\* the lower-cased text.
GenerateCacheKey(text) == <<"asl:translation", Sha256(Lower(text)) % (2 ^ 24)>>

CacheKeys == {GenerateCacheKey(t) : t \in Texts}

(***************************************************************************)
(* The translation workflow (asl_dict_langgraph.py).                       *)
(***************************************************************************)
\* Messages of the exceptions an LLM call raises; str(TimeoutError()) is "".
ErrMsgs == {"", "deadline exceeded", "API key not valid"}

\* GrammarPlanSchema values the planning call returns.
Glosses == {<<>>, <<"i", "H">>, <<"y">>}

Plans == [should_reorder : BOOLEAN, asl_gloss_order : Glosses]

\* DescriptionSchema / SentenceDescriptionSchema values the describing call returns.
Sign1 == [word |-> "HI", hand_shape |-> "open 5", location |-> "temple",
          movement |-> "wave", non_manual_markers |-> "smile"]

Outputs == {[signs |-> <<>>, note |-> ""], [signs |-> <<Sign1>>, note |-> "greeting"]}

\* What one LLM call does: return a value, return None, or raise.
PlanOutcomes == [kind : {"ok"}, plan : Plans] \cup [kind : {"none"}]
                  \cup [kind : {"raise"}, msg : ErrMsgs]

InstrOutcomes == [kind : {"ok"}, out : Outputs] \cup [kind : {"none"}]
                   \cup [kind : {"raise"}, msg : ErrMsgs]

\* str(e) of the AttributeError of plan.should_reorder on a None plan.
NoneAttrMsg == "'NoneType' object has no attribute 'should_reorder'"

\* ASLState: the keys a node has not written yet are absent.
InitialState(text) == [english_input |-> text, translated_input |-> Nothing,
                       final_output |-> Nothing, grammar_plan |-> Nothing,
                       error |-> None]

\* grammar_planner_node: the update the node returns.
GrammarPlannerNode(state, po) ==
  CASE po.kind = "ok" -> [state EXCEPT !.grammar_plan = Some(po.plan)]
    [] po.kind = "none" -> [state EXCEPT !.error = NoneAttrMsg]
    [] po.kind = "raise" -> [state EXCEPT !.error = po.msg]

\* Faulty variant: the two branches are exchanged.
DecideToReorderInverted(state) ==
  IF Truthy(state.error) THEN "end_with_error"
  ELSE IF IsNone(state.grammar_plan) THEN "KeyError"
  ELSE IF Val(state.grammar_plan).should_reorder THEN "instruct_node"
  ELSE "reorder_node"

\* decide_to_reorder: the name of the next node, or the KeyError of
\* state["grammar_plan"].
DecideToReorder(state) ==
  IF Truthy(state.error) THEN "end_with_error"
  ELSE IF IsNone(state.grammar_plan) THEN "KeyError"
  ELSE IF Val(state.grammar_plan).should_reorder THEN "reorder_node"
  ELSE "instruct_node"

\* The path map add_conditional_edges is given.
PathMap == [reorder_node |-> "reorder_node", instruct_node |-> "instruct_node"]

\* Faulty variant: a planning error is routed on to instruct_node.
BranchErrorToInstruct(state) ==
  LET r == DecideToReorder(state)
  IN  IF r \in DOMAIN PathMap THEN PathMap[r]
      ELSE IF r = "end_with_error" THEN "instruct_node"
      ELSE "raised"

\* The conditional edge after planner_node: the branch result is looked up in
\* the path map; a result the map lacks raises KeyError out of invoke.
Branch(state) ==
  LET r == DecideToReorder(state)
  IN  IF r \in DOMAIN PathMap THEN PathMap[r] ELSE "raised"

\* reorder_node.
ReorderNode(state) ==
  [state EXCEPT !.translated_input = Some(Val(state.grammar_plan).asl_gloss_order)]

\* sign_instructor_node: state.get("translated_input") or state["english_input"].
InputText(state) ==
  IF ~IsNone(state.translated_input) /\ Val(state.translated_input) /= <<>>
  THEN Val(state.translated_input)
  ELSE state.english_input

SignInstructorNode(state, io) ==
  CASE io.kind = "ok" -> [state EXCEPT !.final_output = Some(io.out)]
    [] io.kind = "none" -> [state EXCEPT !.final_output = Nothing]
    [] io.kind = "raise" -> [state EXCEPT !.error = io.msg]

\* One chain.invoke of a node: the node that made it, the text it sent and
\* whether it failed (raised, or returned no value).
LlmCall(node, text, outcome) ==
  [node |-> node, text |-> text, failed |-> outcome.kind /= "ok"]

\* asl_graph.invoke(initial_state) as the handler sees it: the final state,
\* or the exception that left the graph, and the LLM calls made.
AslGraphInvoke(text, po, io) ==
  LET s0 == InitialState(text)
      s1 == GrammarPlannerNode(s0, po)
      nxt == Branch(s1)
      s2 == IF nxt = "reorder_node" THEN ReorderNode(s1) ELSE s1
      s3 == SignInstructorNode(s2, io)
  IN  IF nxt = "raised"
      THEN [raised |-> TRUE, state |-> s1,
            calls |-> <<LlmCall("planner_node", text, po)>>]
      ELSE [raised |-> FALSE, state |-> s3,
            calls |-> <<LlmCall("planner_node", text, po),
                        LlmCall("instruct_node", InputText(s2), io)>>]

(***************************************************************************)
(* The result cache (cache.py) over a Redis store: key -> Nothing, or the  *)
(* stored string (data) with the tick at which SETEX lets it expire. An    *)
(* entry also remembers the arguments of the cache_translation call that   *)
(* wrote it (text, value); no operation of the cache reads them.           *)
(***************************************************************************)
RECURSIVE DumpSigns(_)
DumpSigns(signs) ==
  IF signs = <<>> THEN <<>>
  ELSE <<"{", Head(signs).word, Head(signs).hand_shape, Head(signs).location,
         Head(signs).movement, Head(signs).non_manual_markers, "}">>
       \o DumpSigns(Tail(signs))

\* json.dumps of a TranslateResponse.model_dump(): the document, token by token.
JsonDumps(d) ==
  <<"{", "query", d.query, "signs", "[">> \o DumpSigns(d.signs)
    \o <<"]", "note", d.note, "}">>

RECURSIVE LoadSigns(_, _)
LoadSigns(j, i) ==
  IF j[i] = "]" THEN <<>>
  ELSE <<[word |-> j[i + 1], hand_shape |-> j[i + 2], location |-> j[i + 3],
          movement |-> j[i + 4], non_manual_markers |-> j[i + 5]]>>
       \o LoadSigns(j, i + 7)

\* json.loads: the dict the document denotes.
JsonLoads(j) ==
  [query |-> j[3], signs |-> LoadSigns(j, 6), note |-> j[Len(j) - 1]]

\* GET: the value of a key that has not expired.
RedisGet(store, key, t) ==
  IF ~IsNone(store[key]) /\ t < Val(store[key]).expires
  THEN Some(Val(store[key]).data) ELSE Nothing

\* SETEX key ttl value.
RedisSetex(store, key, ttl, value, t, text, translation_data) ==
  [store EXCEPT ![key] = Some([data |-> value, expires |-> t + ttl,
                               text |-> text, value |-> translation_data])]

\* Faulty variant: the lookup never finds anything.
GetCachedTranslationNever(client, store, text, t, fails) == Nothing

\* get_cached_translation: None without a client, on a miss and on any error.
GetCachedTranslation(client, store, text, t, fails) ==
  IF ~client THEN Nothing
  ELSE IF fails THEN Nothing
  ELSE LET cached_data == RedisGet(store, GenerateCacheKey(text), t)
       IN  IF ~IsNone(cached_data) THEN Some(JsonLoads(Val(cached_data)))
           ELSE Nothing

\* cache_translation: the store afterwards; an error is logged and swallowed.
CacheTranslation(client, store, text, translation_data, t, fails) ==
  IF ~client THEN store
  ELSE IF fails THEN store
  ELSE RedisSetex(store, GenerateCacheKey(text), TtlTicks,
                  JsonDumps(translation_data), t, text, translation_data)

\* invalidate_cache: one entry deleted when a text is given, every translation
\* entry otherwise; nothing without a client or on an error.
InvalidateCache(client, store, text, fails) ==
  IF ~client \/ fails THEN store
  ELSE IF ~IsNone(text) /\ Val(text) /= <<>>
  THEN [store EXCEPT ![GenerateCacheKey(Val(text))] = Nothing]
  ELSE [k \in DOMAIN store |-> Nothing]

(***************************************************************************)
(* The analytics table and the shared-key quota (database.py).             *)
(***************************************************************************)
Max(a, b) == IF a >= b THEN a ELSE b

\* datetime.utcnow() with the time of day set to 00:00.
TodayStart(t) == t - (t % TicksPerDay)

\* create_analytics_event: the row added to the table.
AnalyticsRow(event_type, ip_address, query, cache_hit, t) ==
  [event_type |-> event_type, ip_hash |-> HashIp(ip_address), query |-> query,
   cache_hit |-> cache_hit, timestamp |-> t]

CreateAnalyticsEvent(table, event_type, ip_address, query, cache_hit, t) ==
  table (+) SetToBag({AnalyticsRow(event_type, ip_address, query, cache_hit, t)})

\* Faulty variant: the rows of earlier days are counted too.
GetSharedKeyUsageEver(table, ip_hash, t) ==
  LET rows == {e \in BagToSet(table) : /\ e.ip_hash = ip_hash
                                       /\ e.event_type = "translation"}
  IN  BagCardinality([e \in rows |-> table[e]])

\* get_shared_key_usage_today: COUNT of the identity's translation rows since
\* midnight UTC.
GetSharedKeyUsageToday(table, ip_hash, t) ==
  LET rows == {e \in BagToSet(table) : /\ e.ip_hash = ip_hash
                                       /\ e.event_type = "translation"
                                       /\ e.timestamp >= TodayStart(t)}
  IN  BagCardinality([e \in rows |-> table[e]])

\* Faulty variant: remaining is not clamped at zero.
RateLimitInfoUnclamped(used, daily_limit) ==
  [allowed |-> used < daily_limit, used |-> used, limit |-> daily_limit,
   remaining |-> daily_limit - used]

\* Faulty variant: a caller at the ceiling is still allowed.
RateLimitInfoOffByOne(used, daily_limit) ==
  [allowed |-> used <= daily_limit, used |-> used, limit |-> daily_limit,
   remaining |-> Max(0, daily_limit - used)]

\* check_shared_key_rate_limit.
RateLimitInfo(used, daily_limit) ==
  [allowed |-> used < daily_limit, used |-> used, limit |-> daily_limit,
   remaining |-> Max(0, daily_limit - used)]

\* Faulty variant: one translation of the day is held in reserve.
CheckSharedKeyRateLimitReserving(table, ip_hash, daily_limit, t) ==
  [RateLimitInfo(GetSharedKeyUsageToday(table, ip_hash, t), daily_limit)
     EXCEPT !.allowed = GetSharedKeyUsageToday(table, ip_hash, t) + 1 < daily_limit]

CheckSharedKeyRateLimit(table, ip_hash, daily_limit, t) ==
  RateLimitInfo(GetSharedKeyUsageToday(table, ip_hash, t), daily_limit)

(***************************************************************************)
(* The feedback table (database.py) and the request models of the feedback *)
(* endpoints (app.py 173-190).                                             *)
(***************************************************************************)
\* FeedbackRequest: query of 1..500 characters, rating up or down, an
\* optional text of at most 1000 characters.
MinQueryLen == 1
MaxQueryLen == 500
MaxFeedbackTextLen == 1000

\* Faulty variant: any rating is accepted.
ValidRatingAny(rating) == TRUE

\* pattern="^(up|down)$".
ValidRating(rating) == rating \in {"up", "down"}

ValidFeedbackRequest(query, rating, feedback_text) ==
  /\ Len(query) >= MinQueryLen /\ Len(query) <= MaxQueryLen
  /\ ValidRating(rating)
  /\ IsNone(feedback_text) \/ Len(Val(feedback_text)) <= MaxFeedbackTextLen

\* GeneralFeedbackRequest: a category of the four, a text of 10..2000
\* characters, an optional email of at most 255 characters.
Categories == {"bug", "feature", "general", "ui_ux"}
MinGeneralTextLen == 10
MaxGeneralTextLen == 2000
MaxEmailLen == 255

ValidGeneralFeedbackRequest(category, feedback_text, email) ==
  /\ category \in Categories
  /\ Len(feedback_text) >= MinGeneralTextLen /\ Len(feedback_text) <= MaxGeneralTextLen
  /\ IsNone(email) \/ Len(Val(email)) <= MaxEmailLen

\* The primary key SQLite gives the next row: one more than the largest in
\* the table.
NextId(table) ==
  IF table = {} THEN 1
  ELSE (CHOOSE i \in {row.id : row \in table} :
          \A row \in table : row.id <= i) + 1

\* create_feedback: the row added to the table.
FeedbackRow(table, query, rating, feedback_text, ip_address, feedback_type, category, email, t) ==
  [id |-> NextId(table), query |-> query, rating |-> rating,
   feedback_text |-> feedback_text,
   ip_hash |-> IF ~IsNone(ip_address) /\ Val(ip_address) /= <<>>
               THEN Some(HashIp(Val(ip_address))) ELSE Nothing,
   timestamp |-> t, feedback_type |-> feedback_type, category |-> category,
   email |-> email]

CreateFeedback(table, query, rating, feedback_text, ip_address, feedback_type, category, email, t) ==
  table \cup {FeedbackRow(table, query, rating, feedback_text, ip_address,
                          feedback_type, category, email, t)}

\* Faulty variant: only the rated entries are counted in the total.
GetFeedbackStatsRatedOnly(table) ==
  [total_feedback |-> Cardinality({row \in table : ~IsNone(row.rating)}),
   thumbs_up |-> Cardinality({row \in table : row.rating = Some("up")}),
   thumbs_down |-> Cardinality({row \in table : row.rating = Some("down")}),
   with_text_feedback |-> Cardinality({row \in table : ~IsNone(row.feedback_text)})]

\* get_feedback_stats: four COUNT queries.
GetFeedbackStats(table) ==
  [total_feedback |-> Cardinality(table),
   thumbs_up |-> Cardinality({row \in table : row.rating = Some("up")}),
   thumbs_down |-> Cardinality({row \in table : row.rating = Some("down")}),
   with_text_feedback |-> Cardinality({row \in table : ~IsNone(row.feedback_text)})]

\* get_paginated_feedback with the filter only: the rows and their number.
GetPaginatedFeedback(table, feedback_type) ==
  LET items == IF Truthy(feedback_type)
               THEN {row \in table : row.feedback_type = feedback_type}
               ELSE table
  IN  [items |-> items, total |-> Cardinality(items)]

\* Faulty variant: any header that is present is accepted.
VerifyAdminPasswordAnyHeader(password, admin) ==
  IF ~Truthy(admin) THEN 503
  ELSE IF ~Truthy(password) THEN 401
  ELSE 200

\* verify_admin_password (auth.py): the status it lets through (200) or raises.
VerifyAdminPassword(password, admin) ==
  IF ~Truthy(admin) THEN 503
  ELSE IF ~Truthy(password) \/ password /= admin THEN 401
  ELSE 200

(***************************************************************************)
(* The popular-searches query (src/database.py).                           *)
(***************************************************************************)
\* Faulty variant: the event_type filter is dropped.
SearchRowsAnyEvent(table, start_date) ==
  {e \in BagToSet(table) :
     /\ ~IsNone(e.query)
     /\ IsNone(start_date) \/ e.timestamp >= Val(start_date)}

\* The WHERE clauses of get_popular_searches: translation events with a
\* query, and, when start_date is given, not older than it.
SearchRows(table, start_date) ==
  {e \in BagToSet(table) :
     /\ e.event_type = "translation"
     /\ ~IsNone(e.query)
     /\ IsNone(start_date) \/ e.timestamp >= Val(start_date)}

\* GROUP BY query with COUNT(id): one {"query", "count"} entry per query.
SearchGroups(table, start_date) ==
  LET rows == SearchRows(table, start_date)
  IN  {[query |-> Val(q),
        count |-> BagCardinality([e \in {x \in rows : x.query = q}
                                    |-> table[e]])] :
         q \in {e.query : e \in rows}}

\* ORDER BY count DESC: the orders the database may return the groups in
\* (groups of equal count come in any order).
RankedSearches(table, start_date) ==
  LET groups == SearchGroups(table, start_date)
      n == Cardinality(groups)
  IN  {s \in [1..n -> groups] :
         /\ \A i, j \in 1..n : i /= j => s[i] /= s[j]
         /\ \A i, j \in 1..n : i < j => s[i].count >= s[j].count}

\* LIMIT limit as SQLite applies it: a negative limit is no limit.
SqlLimit(s, limit) ==
  IF limit < 0 \/ limit >= Len(s) THEN s ELSE SubSeq(s, 1, limit)

\* get_popular_searches: the lists it may return.
GetPopularSearches(table, limit, start_date) ==
  {SqlLimit(s, limit) : s \in RankedSearches(table, start_date)}

(***************************************************************************)
(* The server state.                                                       *)
(***************************************************************************)
VARIABLES
  settings,    \* shared_api_key, shared_key_daily_limit, and whether init_redis
               \* left a client in _redis_client
  environ,     \* os.environ["GOOGLE_API_KEY"]; None when the variable is unset
  redis,       \* the Redis store
  analytics,   \* the analytics table, a bag of rows
  now,         \* the clock
  req,         \* the request tasks: their locals and position in the handler
  tasks,       \* the detached analytics tasks that have not run yet, a bag
  served,      \* the number of requests received so far
  wfNode,      \* SpecWorkflow: the node the graph runs next
  wfState,     \* SpecWorkflow: the ASLState
  wfCalls,     \* SpecWorkflow: the LLM calls made so far
  feedback,    \* the feedback table, a set of rows (the id is the primary key)
  admin_password,  \* os.environ ADMIN_PASSWORD; "" when the variable is unset
  reply        \* SpecFeedback, SpecAnalytics: the last request and its response

vars == <<settings, environ, redis, analytics, now, req, tasks, served,
          wfNode, wfState, wfCalls, feedback, admin_password, reply>>

fbVars == <<feedback, admin_password, reply>>

serverVars == <<settings, environ, redis, analytics, now, req, tasks, served>>

wfVars == <<wfNode, wfState, wfCalls>>

\* X-Custom-API-Key: absent, or a key.
CustomHeaders == {None, CustomKey}

\* The locals of translate_to_asl before the request arrives, and the value
\* of the variable GOOGLE_API_KEY when the request started.
IdleRequest ==
  [pc |-> "idle", text |-> <<>>, custom_api_key |-> None, ip |-> <<>>,
   cache_hit |-> FALSE, using_shared_key |-> FALSE, rate_limit_info |-> Nothing,
   original_api_key |-> None, api_key_to_use |-> None, llm_calls |-> <<>>,
   workflow |-> "none", cached |-> FALSE, cache_error |-> FALSE,
   response |-> Nothing, spawned |-> <<>>, limited |-> FALSE,
   db_error |-> FALSE, environ_at_start |-> None]

\* The configurations of the server; the daily limit is read only when a
\* shared key is configured.
Settings ==
  {c \in [shared_api_key : {"", SharedKey},
          shared_key_daily_limit : 0..MaxLimit,
          redis_client : BOOLEAN] :
     c.shared_api_key = "" => c.shared_key_daily_limit = MaxLimit}

ServerInit ==
  /\ settings \in Settings
  /\ environ \in {None, "", DefaultKey}
  /\ redis = [k \in CacheKeys |-> Nothing]
  /\ analytics = EmptyBag
  /\ now = 0
  /\ req = [r \in Reqs |-> IdleRequest]
  /\ tasks = EmptyBag
  /\ served = 0

WorkflowIdle ==
  /\ wfNode = "idle"
  /\ wfState = InitialState(<<>>)
  /\ wfCalls = <<>>

\* No feedback yet, no admin secret, no feedback or admin request made.
StoreIdle ==
  /\ feedback = {}
  /\ admin_password = ""
  /\ reply = Nothing

Init == ServerInit /\ WorkflowIdle /\ StoreIdle

(***************************************************************************)
(* Responses.                                                              *)
(***************************************************************************)
NoHeaders == [limit |-> None, remaining |-> None, shared |-> None]

\* raise HTTPException(status_code, detail, headers): FastAPI answers with
\* the status and {"detail": detail}.
HttpError(status, detail, headers) ==
  Some([status |-> status, body |-> [detail |-> detail], headers |-> headers])

Ok(body, headers) == Some([status |-> 200, body |-> body, headers |-> headers])

\* lines 333-348: the TranslateResponse built from the workflow's output.
TranslateResponse(text, final_output) ==
  [query |-> text,
   signs |-> [i \in 1..Len(final_output.signs) |->
                [word |-> final_output.signs[i].word,
                 hand_shape |-> final_output.signs[i].hand_shape,
                 location |-> final_output.signs[i].location,
                 movement |-> final_output.signs[i].movement,
                 non_manual_markers |-> final_output.signs[i].non_manual_markers]],
   note |-> final_output.note]

\* slowapi's _rate_limit_exceeded_handler (line 78): the reply to a request the
\* per-minute limiter of line 206 turns away before the handler body runs.
RateLimitExceeded ==
  Some([status |-> 429, headers |-> NoHeaders,
        body |-> [error |-> <<"Rate limit exceeded">>]])

\* Faulty variant: the quota rejection is sent as 403.
QuotaExceededForbidden(daily_limit) ==
  HttpError(403, <<"Daily limit reached", ToString(daily_limit)>>,
            [limit |-> ToString(daily_limit), remaining |-> "0", shared |-> None])

\* lines 279-287: the quota rejection.
QuotaExceeded(daily_limit) ==
  HttpError(429, <<"Daily limit reached", ToString(daily_limit)>>,
            [limit |-> ToString(daily_limit), remaining |-> "0", shared |-> None])

\* lines 297-300.
ServiceUnavailable == HttpError(503, <<"Translation service unavailable">>, NoHeaders)

\* lines 399-401: except Exception.
InternalError == HttpError(500, <<"Internal server error">>, NoHeaders)

\* Faulty variant: the remaining count the check computed is sent as it is.
SharedKeyHeadersStale(rate_limit_info, daily_limit) ==
  [limit |-> ToString(daily_limit),
   remaining |-> ToString(rate_limit_info.remaining),
   shared |-> "true"]

\* lines 380-393: the headers of a success on the shared key.
SharedKeyHeaders(rate_limit_info, daily_limit) ==
  [limit |-> ToString(daily_limit),
   remaining |-> ToString(Max(0, daily_limit - (rate_limit_info.used + 1))),
   shared |-> "true"]

\* A detached task: the arguments of its create_analytics_event call.
AnalyticsTask(event_type, ip_address, query, cache_hit) ==
  [event_type |-> event_type, ip_address |-> ip_address, query |-> query,
   cache_hit |-> cache_hit]

\* log_cache_hit (229-246) and log_translation (359-375).
TranslationTask(q) ==
  AnalyticsTask("translation", q.ip, Some(q.text), Some(q.cache_hit))

\* analytics_tracking_middleware.log_analytics (130-144).
PageViewTask(q) == AnalyticsTask("page_view", q.ip, Nothing, Nothing)

\* Faulty variant: every translation is logged as a miss.
SpawnAsMiss(q) ==
  [q EXCEPT !.spawned = Append(q.spawned,
                          AnalyticsTask("translation", q.ip, Some(q.text), Some(FALSE)))]

\* asyncio.create_task by the handler.
Spawn(q) == [q EXCEPT !.spawned = Append(q.spawned, TranslationTask(q))]

\* Faulty variant: every answer, whatever its status, is logged as a
\* translation.
AnsweredLogging(q, response) == [Spawn(q) EXCEPT !.pc = "done", !.response = response]

\* The request is answered: the response leaves the handler.
Answered(q, response) == [q EXCEPT !.pc = "done", !.response = response]

\* Every task a request can create.
AllTasks ==
  {AnalyticsTask("translation", ip, Some(text), Some(hit)) :
     ip \in IPs, text \in Texts, hit \in BOOLEAN}
  \cup {AnalyticsTask("page_view", ip, Nothing, Nothing) : ip \in IPs}

RECURSIVE SeqToBag(_)
SeqToBag(seq) ==
  IF seq = <<>> THEN EmptyBag ELSE SetToBag({Head(seq)}) (+) SeqToBag(Tail(seq))

\* The tasks the step of request r has created join the event loop's queue.
Scheduled(r) ==
  tasks' = tasks (+) SeqToBag(req'[r].spawned)

(***************************************************************************)
(* translate_to_asl (app.py 205-401), one action per stretch of code       *)
(* between two suspension points.                                          *)
(***************************************************************************)
InvalidTexts == {<<>>}

\* Faulty variant: the default key is preferred to the shared key.
SelectCredentialDefaultFirst(custom_api_key, shared_api_key, original_api_key) ==
  IF Truthy(custom_api_key) THEN "custom"
  ELSE IF Truthy(original_api_key) THEN "default"
  ELSE IF Truthy(shared_api_key) THEN "shared"
  ELSE "unavailable"

\* lines 261-300: which branch of the credential decision is taken.
SelectCredential(custom_api_key, shared_api_key, original_api_key) ==
  IF Truthy(custom_api_key) THEN "custom"
  ELSE IF Truthy(shared_api_key) THEN "shared"
  ELSE IF Truthy(original_api_key) THEN "default"
  ELSE "unavailable"

\* lines 303-304: the variable while the workflow runs.
SetApiKey(api_key_to_use, original_api_key, env) ==
  IF api_key_to_use /= original_api_key THEN api_key_to_use ELSE env

\* lines 312-318: the variable after the finally block.
RestoreApiKey(api_key_to_use, original_api_key, env) ==
  IF api_key_to_use /= original_api_key
  THEN IF Truthy(original_api_key) THEN original_api_key ELSE None
  ELSE env

\* Faulty variant: a result that could not be stored fails the request.
FinishOrFail(q, daily_limit, stored) ==
  IF stored
  THEN Answered(Spawn([q EXCEPT !.cached = TRUE]),
                Ok(Val(q.response).body, NoHeaders))
  ELSE Answered([q EXCEPT !.cache_error = TRUE], InternalError)

\* lines 350-395: cache_translation has returned; the analytics task is
\* created and the response returned, with the quota headers on the shared key.
Finish(q, daily_limit, stored) ==
  LET body == Val(q.response).body
      headers == IF q.using_shared_key /\ ~IsNone(q.rate_limit_info)
                 THEN SharedKeyHeaders(Val(q.rate_limit_info), daily_limit)
                 ELSE NoHeaders
  IN  Answered(Spawn([q EXCEPT !.cached = stored,
                               !.cache_error = q.cache_error \/ ~stored]),
               Ok(body, headers))

\* Faulty variant: a workflow without a final output is stored and answered
\* as an empty result.
AfterWorkflowStoringNoOutput(q, res, client, daily_limit) ==
  IF res.raised THEN Answered([q EXCEPT !.workflow = "raised"], InternalError)
  ELSE IF Truthy(res.state.error)
  THEN Answered([q EXCEPT !.workflow = "error"],
                HttpError(500, <<"Translation failed", res.state.error>>, NoHeaders))
  ELSE LET empty == [signs |-> <<>>, note |-> ""]
           built == IF IsNone(res.state.final_output)
                    THEN [q EXCEPT !.workflow = "no_output",
                                   !.response = Ok(TranslateResponse(q.text, empty),
                                                   NoHeaders)]
                    ELSE [q EXCEPT !.workflow = "output",
                                   !.response = Ok(TranslateResponse(q.text,
                                                     Val(res.state.final_output)),
                                                   NoHeaders)]
       IN  IF client THEN [built EXCEPT !.pc = "store"]
           ELSE [Finish(built, daily_limit, FALSE) EXCEPT
                   !.cache_error = q.cache_error]

\* lines 320-348 and the except clauses: what the handler makes of the
\* workflow's result. With a Redis client the handler then waits for SETEX.
AfterWorkflow(q, res, client, daily_limit) ==
  IF res.raised THEN Answered([q EXCEPT !.workflow = "raised"], InternalError)
  ELSE IF Truthy(res.state.error)
  THEN Answered([q EXCEPT !.workflow = "error"],
                HttpError(500, <<"Translation failed", res.state.error>>, NoHeaders))
  ELSE IF IsNone(res.state.final_output)
  THEN Answered([q EXCEPT !.workflow = "no_output"],
                HttpError(500, <<"Translation produced no output">>, NoHeaders))
  ELSE LET built == [q EXCEPT !.workflow = "output",
                              !.response = Ok(TranslateResponse(q.text,
                                                Val(res.state.final_output)),
                                              NoHeaders)]
       IN  IF client THEN [built EXCEPT !.pc = "store"]
           ELSE [Finish(built, daily_limit, FALSE) EXCEPT
                   !.cache_error = q.cache_error]

\* Faulty variant: the graph is awaited, other tasks run during its calls.
EventLoopAlwaysFree == TRUE

\* asl_graph.invoke (line 311) is a plain call inside the coroutine: from
\* the moment a request enters it until it returns, the thread of the event
\* loop is inside that call and runs no other task.
EventLoopFree == \A r \in DOMAIN req : req[r].pc /= "invoke"

\* lines 302-311: the variable is set and the graph invoked.
RunWorkflow(r, q) ==
  /\ environ' = SetApiKey(q.api_key_to_use, q.original_api_key, environ)
  /\ req' = [req EXCEPT ![r] = [q EXCEPT !.pc = "invoke"]]
  /\ UNCHANGED <<settings, redis, analytics, now, tasks, served>>

\* lines 311-348: the graph returns or raises; its nodes made their LLM calls
\* with the value the variable holds; the finally block restores the variable
\* and the handler goes on with the result.
Returns(r) ==
  /\ req[r].pc = "invoke"
  /\ UNCHANGED <<wfVars, fbVars>>
  /\ \E po \in PlanOutcomes, io \in InstrOutcomes :
       LET q == req[r]
           res == AslGraphInvoke(q.text, po, io)
           calls == [i \in 1..Len(res.calls) |->
                       [node |-> res.calls[i].node, key |-> environ,
                        failed |-> res.calls[i].failed]]
           q1 == [q EXCEPT !.llm_calls = calls]
       IN  /\ environ' = RestoreApiKey(q.api_key_to_use, q.original_api_key,
                                       environ)
           /\ req' = [req EXCEPT ![r] =
                        AfterWorkflow(q1, res, settings.redis_client,
                                      settings.shared_key_daily_limit)]
  /\ Scheduled(r)
  /\ UNCHANGED <<settings, redis, analytics, now, served>>

\* The request arrives; FastAPI validates the body (422) and calls the handler,
\* which waits for the cache lookup. A request task starts once the one
\* before it on the connection has ended (reached one of the positions ended).
Receive(r, ended) ==
  /\ EventLoopFree
  /\ req[r].pc \in ended
  /\ UNCHANGED <<wfVars, fbVars>>
  /\ served < MaxRequests
  /\ served' = served + 1
  /\ \E text \in Texts \cup InvalidTexts, custom \in CustomHeaders, ip \in IPs,
        limited \in BOOLEAN :
       LET q == [IdleRequest EXCEPT !.text = text, !.custom_api_key = custom,
                                    !.ip = ip, !.environ_at_start = environ]
       IN  req' = [req EXCEPT ![r] =
                     IF ~ValidText(text)
                     THEN Answered(q, HttpError(422, <<"validation">>, NoHeaders))
                     ELSE IF limited
                     THEN Answered([q EXCEPT !.limited = TRUE], RateLimitExceeded)
                     ELSE [q EXCEPT !.pc = "lookup"]]
  /\ Scheduled(r)
  /\ UNCHANGED <<settings, environ, redis, analytics, now>>

\* lines 223-300: the lookup returns; on a hit the response is returned, on a
\* miss the credential is selected.
Lookup(r) ==
  /\ EventLoopFree
  /\ req[r].pc = "lookup"
  /\ UNCHANGED <<wfVars, fbVars>>
  /\ \E fails \in (IF settings.redis_client THEN BOOLEAN ELSE {FALSE}) :
       LET q == req[r]
           cached_result == GetCachedTranslation(settings.redis_client, redis,
                                                 q.text, now, fails)
           original_api_key == environ
           branch == SelectCredential(q.custom_api_key, settings.shared_api_key,
                                      original_api_key)
           q0 == [q EXCEPT !.original_api_key = original_api_key,
                           !.cache_error = fails]
       IN  IF ~IsNone(cached_result)
           THEN /\ req' = [req EXCEPT ![r] =
                             Answered(Spawn([q EXCEPT !.cache_hit = TRUE]),
                                      Ok(Val(cached_result), NoHeaders))]
                /\ Scheduled(r)
                /\ UNCHANGED <<settings, environ, redis, analytics, now, served>>
           ELSE CASE branch = "custom" ->
                       RunWorkflow(r, [q0 EXCEPT !.api_key_to_use = q.custom_api_key])
                  [] branch = "shared" ->
                       /\ req' = [req EXCEPT ![r] =
                                    [q0 EXCEPT !.pc = "check", !.using_shared_key = TRUE]]
                       /\ UNCHANGED <<settings, environ, redis, analytics, now,
                                      tasks, served>>
                  [] branch = "default" ->
                       RunWorkflow(r, [q0 EXCEPT !.api_key_to_use = original_api_key])
                  [] branch = "unavailable" ->
                       /\ req' = [req EXCEPT ![r] = Answered(q0, ServiceUnavailable)]
                       /\ Scheduled(r)
                       /\ UNCHANGED <<settings, environ, redis, analytics, now, served>>

\* lines 271-290: the quota query returns, or the database raises and the
\* except clause of line 399 answers.
Check(r) ==
  /\ EventLoopFree
  /\ req[r].pc = "check"
  /\ UNCHANGED <<wfVars, fbVars>>
  /\ \E fails \in BOOLEAN :
       LET q == req[r]
           info == CheckSharedKeyRateLimit(analytics, HashIp(q.ip),
                                           settings.shared_key_daily_limit, now)
           q1 == [q EXCEPT !.rate_limit_info = Some(info)]
       IN  IF fails
           THEN /\ req' = [req EXCEPT ![r] =
                             Answered([q EXCEPT !.db_error = TRUE], InternalError)]
                /\ Scheduled(r)
                /\ UNCHANGED <<settings, environ, redis, analytics, now, served>>
           ELSE IF ~info.allowed
           THEN /\ req' = [req EXCEPT ![r] =
                             Answered(q1, QuotaExceeded(settings.shared_key_daily_limit))]
                /\ Scheduled(r)
                /\ UNCHANGED <<settings, environ, redis, analytics, now, served>>
           ELSE RunWorkflow(r, [q1 EXCEPT !.api_key_to_use = settings.shared_api_key])

\* lines 350-395: SETEX returns (or fails, which is swallowed).
Store(r) ==
  /\ EventLoopFree
  /\ req[r].pc = "store"
  /\ UNCHANGED <<wfVars, fbVars>>
  /\ \E fails \in BOOLEAN :
       /\ redis' = CacheTranslation(settings.redis_client, redis, req[r].text,
                                    Val(req[r].response).body, now, fails)
       /\ req' = [req EXCEPT ![r] =
                    Finish(req[r], settings.shared_key_daily_limit, ~fails)]
  /\ Scheduled(r)
  /\ UNCHANGED <<settings, environ, analytics, now, served>>

\* Faulty variant: a failure of the recording reaches the request that
\* created the task.
RunTaskSurfacing(task) ==
  /\ EventLoopFree
  /\ BagIn(task, tasks)
  /\ UNCHANGED <<wfVars, fbVars>>
  /\ tasks' = tasks (-) SetToBag({task})
  /\ \E fails \in BOOLEAN :
       /\ analytics' = IF fails THEN analytics
                        ELSE CreateAnalyticsEvent(analytics, task.event_type,
                                                  task.ip_address, task.query,
                                                  task.cache_hit, now)
       /\ req' = [r \in Reqs |->
                   IF fails /\ req[r].pc \in {"done", "sent"}
                   THEN [req[r] EXCEPT !.response = InternalError]
                   ELSE req[r]]
  /\ UNCHANGED <<settings, environ, redis, now, served>>

\* A detached task (log_cache_hit, log_translation, log_analytics) runs: it
\* commits its row, or fails and logs.
RunTask(task) ==
  /\ EventLoopFree
  /\ BagIn(task, tasks)
  /\ UNCHANGED <<wfVars, fbVars>>
  /\ tasks' = tasks (-) SetToBag({task})
  /\ \E fails \in BOOLEAN :
       analytics' = IF fails THEN analytics
                    ELSE CreateAnalyticsEvent(analytics, task.event_type,
                                              task.ip_address, task.query,
                                              task.cache_hit, now)
  /\ UNCHANGED <<settings, environ, redis, now, req, served>>

\* analytics_tracking_middleware (117-147): call_next has returned the
\* response; the page_view task is created and the response sent.
Middleware(r) ==
  /\ EventLoopFree
  /\ req[r].pc = "done"
  /\ UNCHANGED <<wfVars, fbVars>>
  /\ req' = [req EXCEPT ![r] = [req[r] EXCEPT !.pc = "sent",
                                   !.spawned = <<PageViewTask(req[r])>>]]
  /\ Scheduled(r)
  /\ UNCHANGED <<settings, environ, redis, analytics, now, served>>

\* Time passes, also while the graph is being run.
Tick ==
  /\ now < MaxTime
  /\ UNCHANGED <<wfVars, fbVars>>
  /\ now' = now + 1
  /\ UNCHANGED <<settings, environ, redis, analytics, req, tasks, served>>

\* The handler called directly, without the middleware stack.
Arrive(r) == Receive(r, {"idle", "done"})

Next ==
  \/ \E r \in Reqs : Arrive(r)
  \/ \E r \in Reqs : Lookup(r)
  \/ \E r \in Reqs : Check(r)
  \/ \E r \in Reqs : Returns(r)
  \/ \E r \in Reqs : Store(r)
  \/ \E task \in AllTasks : RunTask(task)
  \/ Tick

Spec == Init /\ [][Next]_vars

\* The server with the shared key configured, under the scheduling of the
\* event loop: a call of the graph returns, and a task in the queue of the
\* loop is run.
SharedInit ==
  /\ Init
  /\ settings.shared_api_key = SharedKey
  /\ settings.redis_client
  /\ environ = DefaultKey

Fairness ==
  /\ WF_vars(\E r \in Reqs : Returns(r))
  /\ WF_vars(\E task \in AllTasks : RunTask(task))

SpecFair == SharedInit /\ [][Next]_vars /\ Fairness

\* The application: every request passes through the analytics middleware.
\* A server with the shared key, the default key and Redis configured.
AppInit ==
  /\ Init
  /\ settings = [shared_api_key |-> SharedKey, shared_key_daily_limit |-> MaxLimit,
                 redis_client |-> TRUE]
  /\ environ = DefaultKey

ArriveApp(r) == Receive(r, {"idle", "sent"})

NextApp ==
  \/ \E r \in Reqs : ArriveApp(r)
  \/ \E r \in Reqs : Lookup(r)
  \/ \E r \in Reqs : Check(r)
  \/ \E r \in Reqs : Returns(r)
  \/ \E r \in Reqs : Store(r)
  \/ \E r \in Reqs : Middleware(r)
  \/ \E task \in AllTasks : RunTask(task)
  \/ Tick

SpecApp == AppInit /\ [][NextApp]_vars

\* The event loop with several connections: the request tasks interleave at
\* their suspension points, within one tick of the clock.
NConc == 2         \* request tasks of the event loop

ConcReqs == 1..NConc

\* A server with Redis configured and the daily limit at its largest.
ConcurrentInit ==
  /\ settings \in {c \in Settings : /\ c.redis_client
                                     /\ c.shared_key_daily_limit = MaxLimit}
  /\ environ \in {None, "", DefaultKey}
  /\ redis = [k \in CacheKeys |-> Nothing]
  /\ analytics = EmptyBag
  /\ now = 0
  /\ req = [r \in ConcReqs |-> IdleRequest]
  /\ tasks = EmptyBag
  /\ served = 0
  /\ WorkflowIdle
  /\ StoreIdle

\* The requests are numbered in the order the server accepts them; they are
\* valid requests of one client, within the per-minute limit of line 206.
Accept(r) ==
  /\ r = served + 1
  /\ Receive(r, {"idle"})
  /\ req'[r].ip = CHOOSE ip \in IPs : TRUE
  /\ ValidText(req'[r].text)
  /\ ~req'[r].limited

NextConcurrent ==
  \/ \E r \in ConcReqs : Accept(r)
  \/ \E r \in ConcReqs : Lookup(r)
  \/ \E r \in ConcReqs : Check(r)
  \/ \E r \in ConcReqs : Returns(r)
  \/ \E r \in ConcReqs : Store(r)
  \/ \E task \in AllTasks : RunTask(task)

SpecConcurrent == ConcurrentInit /\ [][NextConcurrent]_vars

(***************************************************************************)
(* One invocation of the compiled graph (build_asl_graph), node by node.   *)
(***************************************************************************)
\* A server that receives nothing while the graph is looked at.
ServerQuiet ==
  /\ settings = [shared_api_key |-> "", shared_key_daily_limit |-> 0,
                 redis_client |-> FALSE]
  /\ environ = DefaultKey
  /\ redis = [k \in CacheKeys |-> Nothing]
  /\ analytics = EmptyBag
  /\ now = 0
  /\ req = [r \in Reqs |-> IdleRequest]
  /\ tasks = EmptyBag
  /\ served = 0

\* asl_app.invoke({"english_input": text}).
WorkflowInit ==
  /\ ServerQuiet
  /\ StoreIdle
  /\ wfNode = "__start__"
  /\ \E text \in Texts : wfState = InitialState(text)
  /\ wfCalls = <<>>

\* set_entry_point("planner_node").
WfEnter ==
  /\ wfNode = "__start__"
  /\ UNCHANGED <<serverVars, fbVars>>
  /\ wfNode' = "planner_node"
  /\ UNCHANGED <<wfState, wfCalls>>

\* planner_node, then its conditional edge.
WfPlanner ==
  /\ wfNode = "planner_node"
  /\ UNCHANGED <<serverVars, fbVars>>
  /\ \E po \in PlanOutcomes :
       /\ wfState' = GrammarPlannerNode(wfState, po)
       /\ wfCalls' = Append(wfCalls, LlmCall("planner_node",
                                             wfState.english_input, po))
  /\ wfNode' = Branch(wfState')

\* reorder_node, then the edge to instruct_node.
WfReorder ==
  /\ wfNode = "reorder_node"
  /\ UNCHANGED <<serverVars, fbVars>>
  /\ wfState' = ReorderNode(wfState)
  /\ wfNode' = "instruct_node"
  /\ UNCHANGED wfCalls

\* instruct_node, then the edge to END.
WfInstruct ==
  /\ wfNode = "instruct_node"
  /\ UNCHANGED <<serverVars, fbVars>>
  /\ \E io \in InstrOutcomes :
       /\ wfState' = SignInstructorNode(wfState, io)
       /\ wfCalls' = Append(wfCalls, LlmCall("instruct_node",
                                             InputText(wfState), io))
  /\ wfNode' = "__end__"

NextWorkflow ==
  \/ WfEnter
  \/ WfPlanner
  \/ WfReorder
  \/ WfInstruct

SpecWorkflow == WorkflowInit /\ [][NextWorkflow]_vars

\* The graph walked node by node ends as asl_graph.invoke is computed.
WorkflowAgrees ==
  wfNode \in {"__end__", "raised"} =>
    \E po \in PlanOutcomes, io \in InstrOutcomes :
      LET res == AslGraphInvoke(wfState.english_input, po, io)
      IN  /\ res.raised = (wfNode = "raised")
          /\ res.state = wfState
          /\ res.calls = wfCalls

(***************************************************************************)
(* The feedback endpoints and the admin endpoints over the feedback table  *)
(* (app.py 440-661). Each handler is one step: the requests are looked at  *)
(* one after the other.                                                    *)
(***************************************************************************)
\* The secret of the administrator, and the X-Admin-Password headers sent.
AdminSecret == "S3CRET"

AdminHeaders == {None, "", AdminSecret, "wrong"}

\* The inputs of the feedback endpoints, valid and invalid.
FbQueries == {<<>>, <<"y">>}

FbRatings == {"up", "down", "sideways"}

FbTexts == {Nothing, Some(<<"h", "i">>)}

GeneralCategories == {"bug", "spam"}

GeneralTexts == {<<"h", "i">>, [i \in 1..MinGeneralTextLen |-> "y"]}

Emails == {Nothing, Some(<<"i", "y">>)}

FeedbackInit ==
  /\ ServerQuiet
  /\ WorkflowIdle
  /\ feedback = {}
  /\ admin_password \in {"", AdminSecret}
  /\ reply = Nothing

\* The request made and the response returned.
Reply(op, args, status, body) ==
  Some([op |-> op, args |-> args, status |-> status, body |-> body])

\* submit_feedback (440-474).
SubmitFeedback ==
  /\ UNCHANGED <<serverVars, wfVars, admin_password>>
  /\ \E ip \in IPs, query \in FbQueries, rating \in FbRatings,
        feedback_text \in FbTexts, limited \in BOOLEAN, fails \in BOOLEAN :
       LET args == [ip |-> ip, query |-> query, rating |-> rating,
                    feedback_text |-> feedback_text]
       IN  IF ~ValidFeedbackRequest(query, rating, feedback_text)
           THEN /\ reply' = Reply("submit_feedback", args, 422, [detail |-> "validation"])
                /\ UNCHANGED feedback
           ELSE IF limited
           THEN /\ reply' = Reply("submit_feedback", args, 429,
                                  [error |-> "Rate limit exceeded"])
                /\ UNCHANGED feedback
           ELSE IF fails
           THEN /\ reply' = Reply("submit_feedback", args, 500,
                                  [detail |-> "Failed to save feedback"])
                /\ UNCHANGED feedback
           ELSE /\ NextId(feedback) <= MaxId
                /\ feedback' = CreateFeedback(feedback, Some(query), Some(rating),
                                              feedback_text, Some(ip), "translation",
                                              Nothing, Nothing, now)
                /\ reply' = Reply("submit_feedback", args, 200,
                                  [success |-> TRUE,
                                   message |-> "Thank you for your feedback!"])

\* submit_general_feedback (477-512).
SubmitGeneralFeedback ==
  /\ UNCHANGED <<serverVars, wfVars, admin_password>>
  /\ \E ip \in IPs, category \in GeneralCategories, feedback_text \in GeneralTexts,
        email \in Emails, limited \in BOOLEAN, fails \in BOOLEAN :
       LET args == [ip |-> ip, category |-> category,
                    feedback_text |-> feedback_text, email |-> email]
       IN  IF ~ValidGeneralFeedbackRequest(category, feedback_text, email)
           THEN /\ reply' = Reply("submit_general_feedback", args, 422,
                                  [detail |-> "validation"])
                /\ UNCHANGED feedback
           ELSE IF limited
           THEN /\ reply' = Reply("submit_general_feedback", args, 429,
                                  [error |-> "Rate limit exceeded"])
                /\ UNCHANGED feedback
           ELSE IF fails
           THEN /\ reply' = Reply("submit_general_feedback", args, 500,
                                  [detail |-> "Failed to save feedback"])
                /\ UNCHANGED feedback
           ELSE /\ NextId(feedback) <= MaxId
                /\ feedback' = CreateFeedback(feedback, Nothing, Nothing,
                                              Some(feedback_text), Some(ip), "general",
                                              Some(category), email, now)
                /\ reply' = Reply("submit_general_feedback", args, 200,
                                  [success |-> TRUE,
                                   message |-> "Thank you for your feedback! We appreciate your input."])

\* get_stats (515-525).
GetStats ==
  /\ UNCHANGED <<serverVars, wfVars, admin_password, feedback>>
  /\ \E fails \in BOOLEAN :
       reply' = IF fails
                THEN Reply("get_stats", <<>>, 500,
                           [detail |-> "Failed to fetch statistics"])
                ELSE Reply("get_stats", <<>>, 200, GetFeedbackStats(feedback))

\* delete_feedback (577-611), behind verify_admin_password.
DeleteFeedback ==
  /\ UNCHANGED <<serverVars, wfVars, admin_password>>
  /\ \E password \in AdminHeaders, feedback_id \in 1..MaxId, fails \in BOOLEAN :
       LET args == [password |-> password, feedback_id |-> feedback_id]
           verified == VerifyAdminPassword(password, admin_password)
           found == {row \in feedback : row.id = feedback_id}
       IN  IF verified = 503
           THEN /\ reply' = Reply("delete_feedback", args, 503,
                                  [detail |-> "Admin access not configured"])
                /\ UNCHANGED feedback
           ELSE IF verified = 401
           THEN /\ reply' = Reply("delete_feedback", args, 401,
                                  [detail |-> "Invalid admin password"])
                /\ UNCHANGED feedback
           ELSE IF fails
           THEN /\ reply' = Reply("delete_feedback", args, 500,
                                  [detail |-> "Failed to delete feedback"])
                /\ UNCHANGED feedback
           ELSE IF found = {}
           THEN /\ reply' = Reply("delete_feedback", args, 404,
                                  [detail |-> "Feedback not found"])
                /\ UNCHANGED feedback
           ELSE /\ feedback' = feedback \ found
                /\ reply' = Reply("delete_feedback", args, 200,
                                  [success |-> TRUE, message |-> "Feedback deleted"])

\* get_admin_feedback (530-574) with the default page, and get_admin_stats
\* (614-661): the read-only admin endpoints over the feedback table.
AdminRead ==
  /\ UNCHANGED <<serverVars, wfVars, admin_password, feedback>>
  /\ \E password \in AdminHeaders, op \in {"get_admin_feedback", "get_admin_stats"},
        feedback_type \in {None, "translation", "general"} :
       LET args == [password |-> password, feedback_type |-> feedback_type]
           verified == VerifyAdminPassword(password, admin_password)
       IN  IF verified = 503
           THEN reply' = Reply(op, args, 503, [detail |-> "Admin access not configured"])
           ELSE IF verified = 401
           THEN reply' = Reply(op, args, 401, [detail |-> "Invalid admin password"])
           ELSE IF op = "get_admin_feedback"
           THEN reply' = Reply(op, args, 200,
                               GetPaginatedFeedback(feedback, feedback_type))
           ELSE /\ feedback_type = None
                /\ reply' = Reply(op, args, 200, GetFeedbackStats(feedback))

NextFeedback ==
  \/ SubmitFeedback
  \/ SubmitGeneralFeedback
  \/ GetStats
  \/ DeleteFeedback
  \/ AdminRead

SpecFeedback == FeedbackInit /\ [][NextFeedback]_vars

(***************************************************************************)
(* The analytics table and its popular-searches query, called as the       *)
(* middleware, the translate handler and get_search_analytics call them.   *)
(***************************************************************************)
MaxEvents == 3     \* rows of the analytics table

EventTypes == {"translation", "page_view"}
EventQueries == {Nothing} \cup {Some(text) : text \in Texts}
Limits == {-1, 0, 1, 2}
StartDates == {Nothing} \cup {Some(t) : t \in 0..MaxTime}

AnalyticsInit ==
  /\ ServerQuiet
  /\ WorkflowIdle
  /\ StoreIdle

\* create_analytics_event (199-227): the row is added and returned.
RecordEvent ==
  /\ BagCardinality(analytics) < MaxEvents
  /\ UNCHANGED <<wfVars, feedback, admin_password>>
  /\ \E event_type \in EventTypes, query \in EventQueries, ip \in IPs :
       /\ analytics' = CreateAnalyticsEvent(analytics, event_type, ip, query,
                                            Nothing, now)
       /\ reply' = Reply("create_analytics_event",
                         [limit |-> 0, start_date |-> Nothing], 200,
                         <<AnalyticsRow(event_type, ip, query, Nothing, now)>>)
  /\ UNCHANGED <<settings, environ, redis, now, req, tasks, served>>

\* get_popular_searches (301-326) on the configured database: SQLite returns
\* the list; a backend that rejects a negative LIMIT makes the call raise.
PopularSearches ==
  /\ UNCHANGED <<serverVars, wfVars, feedback, admin_password>>
  /\ \E limit \in Limits, start_date \in StartDates :
       LET args == [limit |-> limit, start_date |-> start_date]
       IN  \/ \E rows \in GetPopularSearches(analytics, limit, start_date) :
                reply' = Reply("get_popular_searches", args, 200, rows)
           \/ /\ limit < 0
              /\ reply' = Reply("get_popular_searches", args, 500, <<>>)

NextAnalytics ==
  \/ RecordEvent
  \/ PopularSearches
  \/ Tick

SpecAnalytics == AnalyticsInit /\ [][NextAnalytics]_vars

\* check_shared_key_rate_limit (419-439) as the translate handler and
\* get_rate_limit_status (app.py 404-437) call it: the identity, the ceiling
\* and the time of the call, and the dict it returns (as the one element of
\* the body).
RateLimitStatus ==
  /\ UNCHANGED <<serverVars, wfVars, feedback, admin_password>>
  /\ \E ip \in IPs, daily_limit \in 0..MaxLimit :
       reply' = Reply("check_shared_key_rate_limit",
                      [ip |-> ip, limit |-> daily_limit, at |-> now], 200,
                      <<CheckSharedKeyRateLimit(analytics, HashIp(ip),
                                                daily_limit, now)>>)

NextQuota ==
  \/ RecordEvent
  \/ RateLimitStatus
  \/ Tick

SpecQuota == AnalyticsInit /\ [][NextQuota]_vars

(***************************************************************************)
(* Properties of the translate handler.                                    *)
(***************************************************************************)
\* The requests whose handler has returned.
Finished(r) == req[r].pc \in {"done", "sent"}

Status(r) == Val(req[r].response).status

Body(r) == Val(req[r].response).body

\* A finished request with a valid text that the per-minute limiter admitted
\* and the cache did not answer.
FinishedMiss(r) ==
  Finished(r) /\ ValidText(req[r].text) /\ ~req[r].limited /\ ~req[r].cache_hit

\* C1: a request that misses the cache gets its credential in the fixed
\* order: the caller's own key if the header carries one; else, with a shared
\* key configured, the shared key when the quota check allows the caller and a
\* 429 when it does not; else the default key when the variable holds one;
\* else a 503. Every LLM call of the request is made with the chosen key, and
\* an over-quota caller is never served with the default key. (A quota query
\* that the database fails ends the request with 500 and no key.)
C1_DecisionOrder ==
  \A r \in Reqs :
    FinishedMiss(r) \/ req[r].pc = "store" =>
      LET q == req[r]
          rejected == q.api_key_to_use = None /\ q.llm_calls = <<>> /\ q.pc /= "store"
          served_with(k) == /\ q.api_key_to_use = k
                            /\ Len(q.llm_calls) >= 1
                            /\ \A i \in 1..Len(q.llm_calls) : q.llm_calls[i].key = k
                            /\ Status(r) \notin {429, 503}
      IN  IF Truthy(q.custom_api_key) THEN served_with(q.custom_api_key)
          ELSE IF Truthy(settings.shared_api_key)
          THEN IF q.db_error THEN rejected /\ Status(r) = 500
               ELSE /\ ~IsNone(q.rate_limit_info)
                    /\ IF Val(q.rate_limit_info).allowed
                       THEN served_with(settings.shared_api_key)
                       ELSE rejected /\ Status(r) = 429
          ELSE IF Truthy(q.original_api_key) THEN served_with(q.original_api_key)
          ELSE rejected /\ Status(r) = 503

\* C1 witness: with a shared key and a default key both configured, a caller
\* over the quota has been rejected with 429.
C1_Witness ==
  \E r \in Reqs :
    /\ FinishedMiss(r)
    /\ settings.shared_api_key = SharedKey
    /\ req[r].original_api_key = DefaultKey
    /\ ~IsNone(req[r].rate_limit_info)
    /\ ~Val(req[r].rate_limit_info).allowed
    /\ Status(r) = 429

\* The identity's translations of today, as the quota query counts them.
UsedToday(ip) == GetSharedKeyUsageToday(analytics, HashIp(ip), now)

\* C2: whatever the identity, the ceiling L and the count n, the quota check
\* reports used = n and limit = L, with allowed and remaining = L - n when
\* n < L, and not allowed and remaining = 0 when n >= L.
C2_CheckReports ==
  [][\A r \in Reqs :
       (req[r].pc = "check" /\ req'[r].pc /= "check" /\ ~req'[r].db_error) =>
         LET info == Val(req'[r].rate_limit_info)
             L == settings.shared_key_daily_limit
             n == UsedToday(req[r].ip)
         IN  /\ ~IsNone(req'[r].rate_limit_info)
             /\ info.used = n
             /\ info.limit = L
             /\ n < L => info.allowed /\ info.remaining = L - n
             /\ n >= L => ~info.allowed /\ info.remaining = 0]_vars

\* C2 witness: a check that found the identity strictly over the ceiling.
C2_Witness ==
  \E r \in Reqs :
    /\ ~IsNone(req[r].rate_limit_info)
    /\ Val(req[r].rate_limit_info).used > Val(req[r].rate_limit_info).limit

\* C3: when the quota query of a request (cache missed, no own key, shared key
\* configured) finds the identity at or over the ceiling, the request is
\* answered 429 in that step, and the step makes no LLM call, leaves the
\* credential variable and the cache as they were and creates no analytics
\* task; the table gets no row.
C3_QuotaRejection ==
  [][\A r \in Reqs :
       (/\ req[r].pc = "check"
        /\ req'[r].pc /= "check"
        /\ ~req'[r].db_error
        /\ UsedToday(req[r].ip) >= settings.shared_key_daily_limit)
       => /\ req'[r].pc = "done"
          /\ Val(req'[r].response).status = 429
          /\ req'[r].llm_calls = <<>>
          /\ req'[r].spawned = <<>>
          /\ ~req'[r].cached
          /\ environ' = environ
          /\ redis' = redis
          /\ tasks' = tasks
          /\ analytics' = analytics]_vars

\* C3 witness: a caller with translations on record today was rejected.
C3_Witness ==
  \E r \in Reqs :
    /\ Finished(r)
    /\ ~IsNone(req[r].rate_limit_info)
    /\ Status(r) = 429
    /\ UsedToday(req[r].ip) >= 1
    /\ settings.shared_key_daily_limit >= 1

\* Every request received so far is still held by its task.
AllRequestsHeld == served = Cardinality({r \in Reqs : req[r].pc /= "idle"})

\* C4: requests that carry the caller's own key are uncounted: with a shared
\* key configured, as long as every request received carried the caller's own
\* key, the usage the quota query computes is zero for every identity.
C4_OwnKeyUncounted ==
  (/\ Truthy(settings.shared_api_key)
   /\ AllRequestsHeld
   /\ \A r \in Reqs : req[r].pc /= "idle" => Truthy(req[r].custom_api_key))
  => \A ip \in IPs : UsedToday(ip) = 0

\* The five fields of a sign.
SignFields == {"word", "hand_shape", "location", "movement", "non_manual_markers"}

WellFormedResult(body) ==
  /\ DOMAIN body = {"query", "signs", "note"}
  /\ \A i \in 1..Len(body.signs) : DOMAIN body.signs[i] = SignFields

\* C5: a request with a valid text ends with 200 and a body of query, signs
\* and note, or with 429, 500 or 503 and a detail (the per-minute limiter's
\* 429 carries an error message instead); and while it is in the handler its
\* next step is always possible, or the event loop is inside a call of the
\* graph, which can return.
C5_DocumentedOutcome ==
  \A r \in Reqs :
    /\ (Finished(r) /\ ValidText(req[r].text)) =>
         \/ Status(r) = 200 /\ WellFormedResult(Body(r))
         \/ Status(r) \in {429, 500, 503} /\ DOMAIN Body(r) = {"detail"}
         \/ Status(r) = 429 /\ req[r].limited /\ DOMAIN Body(r) = {"error"}
    /\ req[r].pc \in {"lookup", "check", "invoke", "store"} =>
         IF EventLoopFree
         THEN ENABLED (Lookup(r) \/ Check(r) \/ Store(r))
         ELSE \E r2 \in Reqs : req[r2].pc = "invoke" /\ ENABLED Returns(r2)

\* C5 witness: the graph raised inside the handler and the request got a 500.
C5_Witness ==
  \E r \in Reqs :
    /\ Finished(r)
    /\ req[r].workflow = "raised"
    /\ Status(r) = 500

\* The live cache entry a lookup of the text finds, if any.
LiveEntry(text) ==
  IF settings.redis_client /\ ~IsNone(RedisGet(redis, GenerateCacheKey(text), now))
  THEN redis[GenerateCacheKey(text)] ELSE Nothing

\* The lookup of request r returns in this step, and it did not fail.
LookupReturns(r) ==
  req[r].pc = "lookup" /\ req'[r].pc /= "lookup" /\ ~req'[r].cache_error

\* C6: with a working cache, a request for a text whose result an earlier
\* request stored (and which has not expired) is answered from the cache: no
\* LLM call, no quota check, the stored result as the body, and one translation
\* analytics task with cache_hit = true; a request answered 200 by the
\* workflow created its translation analytics task with cache_hit = false.
C6_SecondRequestHits ==
  /\ [][\A r \in Reqs :
          (LookupReturns(r) /\ ~IsNone(LiveEntry(req[r].text))) =>
            /\ req'[r].pc = "done"
            /\ req'[r].cache_hit
            /\ Val(req'[r].response).status = 200
            /\ Val(req'[r].response).body = Val(LiveEntry(req[r].text)).value
            /\ req'[r].llm_calls = <<>>
            /\ IsNone(req'[r].rate_limit_info)
            /\ req'[r].spawned =
                 <<AnalyticsTask("translation", req[r].ip, Some(req[r].text), Some(TRUE))>>
            /\ tasks' = tasks (+) SetToBag({req'[r].spawned[1]})
            /\ environ' = environ /\ redis' = redis /\ analytics' = analytics]_vars
  /\ [](\A r \in Reqs :
          (FinishedMiss(r) /\ Status(r) = 200 /\ req[r].pc = "done") =>
            req[r].spawned =
              <<AnalyticsTask("translation", req[r].ip, Some(req[r].text), Some(FALSE))>>)

\* C6 witness: a request was answered from an entry stored for the very same
\* text.
C6_Witness ==
  \E r \in Reqs :
    /\ Finished(r)
    /\ req[r].cache_hit
    /\ ~IsNone(LiveEntry(req[r].text))
    /\ Val(LiveEntry(req[r].text)).text = req[r].text

\* C7: after cache_translation(Q, R) succeeds, get_cached_translation(Q')
\* returns R for every Q' that lower-cases to the same text as Q, for as long
\* as the entry has not expired; once it has expired, or has been
\* invalidated, the lookup returns nothing.
C7_CacheRoundTrip ==
  /\ [][\A r \in Reqs :
          (req[r].pc = "store" /\ req'[r].pc /= "store" /\ req'[r].cached) =>
            \A text \in Texts :
              Lower(text) = Lower(req[r].text) =>
                GetCachedTranslation(TRUE, redis', text, now, FALSE)
                  = Some(Val(req[r].response).body)]_vars
  /\ [](\A key \in CacheKeys :
          ~IsNone(redis[key]) =>
            \A text \in Texts :
              Lower(text) = Lower(Val(redis[key]).text) =>
                GetCachedTranslation(TRUE, redis, text, now, FALSE)
                  = IF now < Val(redis[key]).expires
                    THEN Some(Val(redis[key]).value) ELSE Nothing)
  /\ [](\A Q \in Texts, text \in Texts, all \in BOOLEAN :
          Lower(text) = Lower(Q) =>
            GetCachedTranslation(
              TRUE, InvalidateCache(TRUE, redis, IF all THEN Nothing ELSE Some(Q), FALSE),
              text, now, FALSE) = Nothing)

\* C7 witness: an entry stored under one spelling is live and has signs in it.
C7_Witness ==
  \E key \in CacheKeys :
    /\ ~IsNone(redis[key])
    /\ now < Val(redis[key]).expires
    /\ Val(redis[key]).text = <<"H", "i">>
    /\ Val(redis[key]).value.signs /= <<>>

\* C7 witness of the expiry: an entry has outlived its TTL.
C7_Expired ==
  \E key \in CacheKeys : ~IsNone(redis[key]) /\ now >= Val(redis[key]).expires

\* C8: without a cache client, or when the lookup fails, the request goes on
\* as a miss; when the store fails the response is the one already built. The
\* status and the body are those the workflow's outcome determines.
C8_CacheBestEffort ==
  /\ [][\A r \in Reqs :
          /\ (req[r].pc = "lookup" /\ req'[r].pc /= "lookup"
              /\ (~settings.redis_client \/ req'[r].cache_error))
             => ~req'[r].cache_hit
          /\ (req[r].pc = "store" /\ req'[r].pc /= "store")
             => /\ req'[r].pc = "done"
                /\ Val(req'[r].response).status = 200
                /\ Val(req'[r].response).body = Val(req[r].response).body]_vars
  /\ [](\A r \in Reqs :
          FinishedMiss(r) =>
            CASE req[r].workflow = "output" ->
                   /\ Status(r) = 200
                   /\ \E o \in Outputs : Body(r) = TranslateResponse(req[r].text, o)
              [] req[r].workflow \in {"error", "no_output", "raised"} ->
                   Status(r) = 500
              [] OTHER -> IF req[r].db_error THEN Status(r) = 500
                          ELSE Status(r) \in {429, 503})

\* C8 witness: a request was answered 200 although the store failed.
C8_Witness ==
  \E r \in Reqs :
    /\ Finished(r)
    /\ settings.redis_client
    /\ req[r].workflow = "output"
    /\ req[r].cache_error
    /\ ~req[r].cached
    /\ Status(r) = 200

\* The caller of r has no credential to be served with: no own key, and
\* either the shared key's quota is used up or there is no key at all.
NoCredential(r) ==
  /\ ~Truthy(req[r].custom_api_key)
  /\ IF Truthy(settings.shared_api_key)
     THEN UsedToday(req[r].ip) >= settings.shared_key_daily_limit
     ELSE ~Truthy(environ)

\* C9: a request whose normalized text has a live cache entry is answered 200
\* with the cached result, whatever key produced the entry and whatever the
\* caller's own key, quota or lack of any key; a request answered from the
\* cache is never answered 429 or 503.
C9_HitWhateverCredential ==
  /\ [][\A r \in Reqs :
          (LookupReturns(r) /\ ~IsNone(LiveEntry(req[r].text))) =>
            /\ Val(req'[r].response).status = 200
            /\ Val(req'[r].response).body = Val(LiveEntry(req[r].text)).value]_vars
  /\ [](\A r \in Reqs :
          (Finished(r) /\ req[r].cache_hit) => Status(r) = 200)

\* C9 witness: a caller over the quota of the shared key was answered from the
\* cache.
C9_Witness ==
  \E r \in Reqs :
    /\ Finished(r)
    /\ req[r].cache_hit
    /\ Truthy(settings.shared_api_key)
    /\ NoCredential(r)

\* C9 witness: a caller was answered from the cache with no key available.
C9_NoKeyAtAll ==
  \E r \in Reqs :
    /\ Finished(r)
    /\ req[r].cache_hit
    /\ ~Truthy(settings.shared_api_key)
    /\ NoCredential(r)

\* C12: analytics recording is detached from the response. Once a request is
\* answered its response never changes; a step that commits a row, or in
\* which a task ends (committed or failed), leaves every request, the
\* credential variable and the cache as they were; and a handler or
\* middleware step that creates a task only queues it and commits nothing.
C12_AnalyticsDetached ==
  [][/\ \A r \in Reqs :
          (Finished(r) /\ served' = served) => req'[r].response = req[r].response
     /\ (analytics' /= analytics \/ (\E task \in AllTasks :
                                       CopiesIn(task, tasks') < CopiesIn(task, tasks)))
          => (req' = req /\ environ' = environ /\ redis' = redis)
     /\ \A r \in Reqs :
          req'[r] /= req[r] =>
            /\ analytics' = analytics
            /\ tasks' = tasks (+) SeqToBag(req'[r].spawned)]_vars

\* C12 witness: a translation was answered 200 and sent, the recording of its
\* events failed, and nothing was committed.
C12_Witness ==
  \E r \in Reqs :
    /\ req[r].pc = "sent"
    /\ Status(r) = 200
    /\ served = 1
    /\ tasks = EmptyBag
    /\ analytics = EmptyBag

\* C12 witness: a request has been answered while its event is still queued.
C12_Pending ==
  \E r \in Reqs :
    /\ req[r].pc = "done"
    /\ Status(r) = 200
    /\ req[r].spawned /= <<>>
    /\ BagIn(req[r].spawned[1], tasks)
    /\ analytics = EmptyBag

\* The workflow of request r failed: a node recorded an error, or the graph
\* raised.
WorkflowFailed(r) == FinishedMiss(r) /\ req[r].workflow \in {"error", "raised"}

\* C11: when the workflow fails, the response is a 500 whose body does not
\* depend on the failure message: no message of an LLM failure occurs in the
\* body, so requests that differ only in that message get the same body.
C11_GenericFailureBody ==
  \A r \in Reqs :
    WorkflowFailed(r) =>
      /\ Status(r) = 500
      /\ \A msg \in ErrMsgs \ {""} :
           \A i \in 1..Len(Body(r).detail) : Body(r).detail[i] /= msg

(***************************************************************************)
(* Properties of the feedback and analytics stores.                        *)
(***************************************************************************)
\* A 64-character hexadecimal digest.
IsDigest(h) ==
  /\ Len(h) = DigestLen
  /\ \A i \in 1..Len(h) : \E k \in 1..Len(HexChars) : h[i] = HexChars[k]

\* The raw address ip is in none of the text fields of a feedback row.
NoRawIp(row, ip) ==
  /\ row.ip_hash /= Some(ip)
  /\ row.query /= Some(ip)
  /\ row.feedback_text /= Some(ip)
  /\ row.email /= Some(ip)

\* C13: the identity field of every stored feedback entry and analytics event
\* is hash_ip of the client address it was created from: a 64-character hex
\* digest that differs from the address; equal addresses give equal digests,
\* and no stored field holds the raw address.
C13_IpHashed ==
  /\ [][\A row \in feedback' \ feedback :
          LET ip == Val(reply').args.ip
          IN  /\ row.ip_hash = Some(HashIp(ip))
              /\ IsDigest(Val(row.ip_hash))
              /\ NoRawIp(row, ip)]_vars
  /\ [](\A row \in feedback :
          /\ \E ip \in IPs : row.ip_hash = Some(HashIp(ip))
          /\ \A ip \in IPs : NoRawIp(row, ip))
  /\ [](\A ip \in IPs, event_type \in {"translation", "page_view"} :
          LET event == AnalyticsRow(event_type, ip, Nothing, Nothing, now)
          IN  /\ IsDigest(event.ip_hash)
              /\ event.ip_hash /= ip
              /\ \A ip2 \in IPs :
                   (event.ip_hash
                      = AnalyticsRow(event_type, ip2, Nothing, Nothing, now).ip_hash)
                     <=> (ip = ip2))

\* C13 witness: two entries of different types stored from one address carry
\* the same digest.
C13_Witness ==
  \E r1 \in feedback, r2 \in feedback :
    /\ r1.feedback_type = "translation"
    /\ r2.feedback_type = "general"
    /\ ~IsNone(r1.ip_hash)
    /\ r1.ip_hash = r2.ip_hash

\* C14: every stored entry of type "translation" carries a query and a rating
\* of up or down; every stored entry of type "general" carries a text and
\* neither a rating nor a query.
C14_FeedbackTyping ==
  \A row \in feedback :
    /\ row.feedback_type \in {"translation", "general"}
    /\ row.feedback_type = "translation" =>
         /\ ~IsNone(row.query)
         /\ row.rating \in {Some("up"), Some("down")}
    /\ row.feedback_type = "general" =>
         /\ ~IsNone(row.feedback_text)
         /\ IsNone(row.rating)
         /\ IsNone(row.query)

\* C14 witness: the table holds an entry of each type.
C14_Witness ==
  /\ \E row \in feedback : row.feedback_type = "translation" /\ row.rating = Some("down")
  /\ \E row \in feedback : row.feedback_type = "general" /\ ~IsNone(row.email)

\* The admin endpoints over the feedback table.
AdminOps == {"delete_feedback", "get_admin_feedback", "get_admin_stats"}

\* C15: an entry leaves the table only in a delete_feedback call whose header
\* equals the configured, non-empty admin secret. An admin call is answered
\* 503 when no secret is configured and 401 when the header is missing or
\* wrong, the table unchanged in both cases; no admin call adds an entry.
C15_AdminDeleteOnly ==
  [][(reply' /= reply \/ feedback' /= feedback) =>
       LET rp == Val(reply')
       IN  /\ ~(feedback \subseteq feedback') =>
                /\ rp.op = "delete_feedback"
                /\ rp.status = 200
                /\ admin_password /= ""
                /\ rp.args.password = admin_password
                /\ feedback' = {row \in feedback : row.id /= rp.args.feedback_id}
           /\ rp.op \in AdminOps =>
                /\ feedback' \subseteq feedback
                /\ admin_password = "" => rp.status = 503 /\ feedback' = feedback
                /\ (admin_password /= "" /\ rp.args.password /= admin_password)
                     => rp.status = 401 /\ feedback' = feedback]_vars

\* C15 witness: the admin deleted one of two entries.
C15_Witness ==
  /\ ~IsNone(reply)
  /\ Val(reply).op = "delete_feedback"
  /\ Val(reply).status = 200
  /\ Cardinality(feedback) = 1

\* C15 witness of the rejections: a wrong header on a non-empty table.
C15_Rejected ==
  /\ ~IsNone(reply)
  /\ Val(reply).op = "delete_feedback"
  /\ Val(reply).status = 401
  /\ Val(reply).args.password = "wrong"
  /\ \E row \in feedback : row.id = Val(reply).args.feedback_id

\* C16: the statistics report thumbs_up = the stored entries rated up,
\* thumbs_down = those rated down and total_feedback = all stored entries of
\* both types, hence total_feedback >= thumbs_up + thumbs_down.
C16_FeedbackStats ==
  (~IsNone(reply) /\ Val(reply).op = "get_stats" /\ Val(reply).status = 200) =>
    LET stats == Val(reply).body
    IN  /\ stats.thumbs_up = Cardinality({row \in feedback : row.rating = Some("up")})
        /\ stats.thumbs_down = Cardinality({row \in feedback : row.rating = Some("down")})
        /\ stats.total_feedback = Cardinality(feedback)
        /\ stats.total_feedback >= stats.thumbs_up + stats.thumbs_down

\* C16 witness: statistics over a rated entry and a general entry.
C16_Witness ==
  /\ ~IsNone(reply)
  /\ Val(reply).op = "get_stats"
  /\ Val(reply).status = 200
  /\ Val(reply).body.total_feedback = 2
  /\ Val(reply).body.thumbs_up = 1
  /\ Val(reply).body.thumbs_down = 0

\* The reply of a get_popular_searches call that returned.
SearchReply ==
  /\ ~IsNone(reply)
  /\ Val(reply).op = "get_popular_searches"
  /\ Val(reply).status = 200

\* The translation events with query q the call counts: all of them, or
\* those not older than start_date when one is given.
TranslationEvents(q, start_date) ==
  LET rows == {e \in BagToSet(analytics) :
                 /\ e.event_type = "translation"
                 /\ e.query = Some(q)
                 /\ IsNone(start_date) \/ e.timestamp >= Val(start_date)}
  IN  BagCardinality([e \in rows |-> analytics[e]])

\* The ranking of a returned list: one entry per query, each a query of some
\* counted translation event with exactly the number of those events, in
\* non-increasing order of count, and no left-out query outranks an entry.
RankedExactly(rows, limit, start_date) ==
  /\ \A i, j \in 1..Len(rows) : i /= j => rows[i].query /= rows[j].query
  /\ \A i \in 1..Len(rows) :
       /\ rows[i].count >= 1
       /\ rows[i].count = TranslationEvents(rows[i].query, start_date)
  /\ \A i, j \in 1..Len(rows) : i < j => rows[i].count >= rows[j].count
  /\ \A q \in Texts :
       (/\ TranslationEvents(q, start_date) >= 1
        /\ \A i \in 1..Len(rows) : rows[i].query /= q)
         => /\ Len(rows) >= limit
            /\ \A i \in 1..Len(rows) :
                 rows[i].count >= TranslationEvents(q, start_date)

\* C17: get_popular_searches(limit) returns at most limit entries, one per
\* distinct non-null query among translation events only, each with the
\* exact number of translation events for that query, in non-increasing
\* order of count.
C17_PopularSearches ==
  SearchReply =>
    LET rows == Val(reply).body
        args == Val(reply).args
    IN  /\ Len(rows) <= Max(args.limit, 0)
        /\ RankedExactly(rows, args.limit, args.start_date)

\* C17 for the limits that are not negative: the list has at most limit
\* entries and is ranked exactly.
C17_NonNegativeLimit ==
  (SearchReply /\ Val(reply).args.limit >= 0) =>
    LET rows == Val(reply).body
        args == Val(reply).args
    IN  /\ Len(rows) <= args.limit
        /\ RankedExactly(rows, args.limit, args.start_date)

\* C17 apart from the length: every returned list is ranked exactly,
\* whatever the limit.
C17_Ranked ==
  SearchReply =>
    RankedExactly(Val(reply).body, Val(reply).args.limit,
                  Val(reply).args.start_date)

\* A list cut at its limit, with a page_view event carrying a query and a
\* translation event without one in the table.
C17_Witness ==
  /\ SearchReply
  /\ Val(reply).args.limit = 1
  /\ Len(Val(reply).body) = 1
  /\ Val(reply).body[1].count = 2
  /\ \E e \in BagToSet(analytics) :
       e.event_type = "page_view" /\ ~IsNone(e.query)

\* A negative limit answered with a list that is not empty.
C17_Unlimited ==
  /\ SearchReply
  /\ Val(reply).args.limit < 0
  /\ Len(Val(reply).body) >= 2

(***************************************************************************)
(* Properties of the translation workflow.                                 *)
(***************************************************************************)
\* C10: an invocation of the graph never raises, and the state it returns
\* holds exactly one of final_output and error: never both, never neither.
C10_OutputOrError ==
  /\ wfNode /= "raised"
  /\ wfNode = "__end__" => (~IsNone(wfState.final_output)) /= Truthy(wfState.error)

\* The planning step returned a plan: the state holds it and no error.
PlanningSucceeded ==
  /\ wfNode = "planner_node"
  /\ ~IsNone(wfState'.grammar_plan)
  /\ ~Truthy(wfState'.error)

\* C18: after a successful planning step the workflow goes to reorder_node
\* exactly when the plan's should_reorder is true and otherwise directly to
\* instruct_node; reorder_node makes no LLM call, copies asl_gloss_order
\* into translated_input and is always followed by instruct_node;
\* instruct_node is always the last step before the end.
C18_Routing ==
  [][/\ PlanningSucceeded =>
          /\ wfNode' \in {"reorder_node", "instruct_node"}
          /\ (wfNode' = "reorder_node")
               = Val(wfState'.grammar_plan).should_reorder
     /\ wfNode = "reorder_node" =>
          /\ wfCalls' = wfCalls
          /\ wfState' = [wfState EXCEPT !.translated_input =
                           Some(Val(wfState.grammar_plan).asl_gloss_order)]
          /\ wfNode' = "instruct_node"
     /\ wfNode' = "instruct_node" =>
          wfNode = "reorder_node" \/ PlanningSucceeded
     /\ wfNode = "instruct_node" => wfNode' = "__end__"
     /\ wfNode' = "__end__" => wfNode = "instruct_node"]_vars

\* A run that went through reorder_node: the gloss order of the plan is the
\* translated input and two calls were made.
C18_Witness ==
  /\ wfNode = "__end__"
  /\ ~IsNone(wfState.grammar_plan)
  /\ Val(wfState.grammar_plan).should_reorder
  /\ wfState.translated_input = Some(<<"i", "H">>)
  /\ Len(wfCalls) = 2

\* A run that went from planner_node directly to instruct_node.
C18_Direct ==
  /\ wfNode = "__end__"
  /\ ~IsNone(wfState.grammar_plan)
  /\ ~Val(wfState.grammar_plan).should_reorder
  /\ IsNone(wfState.translated_input)

\* The planning LLM call of the run was made and failed.
PlanningFailed == Len(wfCalls) >= 1 /\ wfCalls[1].failed

\* C19: when the planning LLM call fails, the workflow ends in its error
\* state carrying the message of the planning failure: neither reorder_node
\* nor instruct_node runs, no second LLM call is made, and the caller
\* receives that message as the outcome of the workflow.
C19_PlanningFailureEnds ==
  PlanningFailed =>
    /\ wfNode = "__end__"
    /\ Truthy(wfState.error)
    /\ Len(wfCalls) = 1
    /\ IsNone(wfState.translated_input)
    /\ IsNone(wfState.final_output)

\* C19 without the outcome: after a failed planning call neither
\* reorder_node nor instruct_node runs and no second LLM call is made.
C19_NothingRunsAfter ==
  PlanningFailed =>
    /\ wfNode \notin {"reorder_node", "instruct_node"}
    /\ Len(wfCalls) = 1
    /\ IsNone(wfState.translated_input)
    /\ IsNone(wfState.final_output)

\* A planning call that raised with a message: the exception of the branch
\* lookup leaves the graph.
C19_Raised ==
  /\ PlanningFailed
  /\ wfState.error = "deadline exceeded"
  /\ wfNode = "raised"

\* The LLM calls of one request without a retry: at most the planning call
\* and then the describing call, and a failed call is the last one.
NoRetry(calls) ==
  /\ Len(calls) <= 2
  /\ \A i \in 1..Len(calls) :
       /\ calls[i].node = <<"planner_node", "instruct_node">>[i]
       /\ calls[i].failed => i = Len(calls)

\* C20: there is no retry: one translate request makes at most one planning
\* LLM call and at most one describing LLM call, in that order, after a
\* failed LLM call of the request no further call is made for it, and a
\* request that has made its calls makes no more.
C20_NoRetry ==
  /\ [](\A r \in Reqs : NoRetry(req[r].llm_calls))
  /\ [][\A r \in Reqs :
          req'[r].llm_calls /= req[r].llm_calls =>
            req[r].llm_calls = <<>> \/ req'[r].llm_calls = <<>>]_vars

\* A request answered 500 after its describing call failed: the planning
\* call and the failed describing call, nothing after them.
C20_Witness ==
  \E r \in Reqs :
    /\ Finished(r)
    /\ Status(r) = 500
    /\ Len(req[r].llm_calls) = 2
    /\ req[r].llm_calls[2].failed

\* A request answered 500 after its planning call failed: that call only.
C20_PlanningOnly ==
  \E r \in Reqs :
    /\ Finished(r)
    /\ Status(r) = 500
    /\ Len(req[r].llm_calls) = 1
    /\ req[r].llm_calls[1].failed

\* The same for the graph walked node by node.
C20_WorkflowNoRetry == NoRetry(wfCalls)

\* instruct_node has made its call: the call and whether reorder_node ran
\* before it (reorder_node is the only writer of translated_input).
Described == Len(wfCalls) = 2 /\ wfCalls[2].node = "instruct_node"

ReorderingRan == ~IsNone(wfState.translated_input)

\* C21: the text handed to the describing LLM call is the plan's
\* asl_gloss_order whenever reorder_node ran, for every value of
\* asl_gloss_order, and is the original English input when reorder_node was
\* skipped.
C21_DescribedText ==
  Described =>
    wfCalls[2].text = IF ReorderingRan
                      THEN Val(wfState.grammar_plan).asl_gloss_order
                      ELSE wfState.english_input

\* C21 for the plans whose asl_gloss_order is not empty.
C21_NonEmptyGloss ==
  (Described /\ (ReorderingRan => Val(wfState.translated_input) /= <<>>)) =>
    wfCalls[2].text = IF ReorderingRan
                      THEN Val(wfState.grammar_plan).asl_gloss_order
                      ELSE wfState.english_input

\* reorder_node ran on an empty asl_gloss_order and the describing call was
\* given the English input.
C21_EmptyGloss ==
  /\ Described
  /\ ReorderingRan
  /\ Val(wfState.grammar_plan).asl_gloss_order = <<>>
  /\ wfCalls[2].text = wfState.english_input

\* The step in which request r ends: its response leaves the handler.
Ends(r) == req[r].pc /= "done" /\ req'[r].pc = "done"

\* C22: the process-wide credential variable is restored after every
\* translate request: whatever credential was selected and however the
\* workflow ended, when the request ends the variable has exactly the value
\* it had when the request started, and is absent if it was absent.
C22_CredentialRestored ==
  [][\A r \in Reqs : Ends(r) => environ' = req'[r].environ_at_start]_vars

\* C22 for the requests that start with the variable absent or holding a
\* key: the variable is restored to that value.
C22_RestoredUnlessEmpty ==
  [][\A r \in Reqs :
       (Ends(r) /\ req'[r].environ_at_start /= "") =>
         environ' = req'[r].environ_at_start]_vars

\* A request that started with the variable set to the empty string and ran
\* the workflow with another key ends with the variable absent.
C22_EmptyBecomesAbsent ==
  \E r \in Reqs :
    /\ req[r].pc = "done"
    /\ req[r].environ_at_start = ""
    /\ req[r].llm_calls /= <<>>
    /\ environ = None

\* A request that ran the workflow with the caller's key and failed ends
\* with the variable holding the default key again.
C22_RestoredAfterFailure ==
  \E r \in Reqs :
    /\ req[r].pc = "done"
    /\ req[r].environ_at_start = DefaultKey
    /\ req[r].workflow = "raised"
    /\ req[r].api_key_to_use = CustomKey
    /\ environ = DefaultKey

(***************************************************************************)
(* Properties of concurrent translate requests.                            *)
(***************************************************************************)
\* The values the variable GOOGLE_API_KEY has outside every request: the
\* value at start (absent, empty or the default key), or absent after a
\* restore.
OwnValues == {None, "", DefaultKey}

\* C23: under every interleaving of concurrent translate requests that
\* select different credentials, each LLM call of a request is made with the
\* credential selected for that same request: while a request is inside the
\* graph the variable holds the credential selected for it and no other
\* request is inside the graph; every LLM call made carries the credential of
\* its request; and no request reads another request's credential as the
\* original value it restores.
C23_OwnCredential ==
  \A r \in DOMAIN req :
    /\ req[r].pc = "invoke" =>
         /\ environ = req[r].api_key_to_use
         /\ \A r2 \in DOMAIN req : r2 /= r => req[r2].pc /= "invoke"
    /\ \A i \in 1..Len(req[r].llm_calls) :
         req[r].llm_calls[i].key = req[r].api_key_to_use
    /\ req[r].original_api_key \in OwnValues
    /\ EventLoopFree => environ \in OwnValues

\* One request is inside the graph with the shared key while another, which
\* carries the caller's own key, waits for its lookup.
C23_Witness ==
  \E r, r2 \in DOMAIN req :
    /\ req[r].pc = "invoke"
    /\ req[r].api_key_to_use = SharedKey
    /\ environ = SharedKey
    /\ req[r2].pc = "lookup"
    /\ req[r2].custom_api_key = CustomKey

\* Two requests made their LLM calls with different credentials.
C23_TwoCredentials ==
  \E r, r2 \in DOMAIN req :
    /\ req[r].llm_calls /= <<>>
    /\ req[r2].llm_calls /= <<>>
    /\ req[r].llm_calls[1].key = CustomKey
    /\ req[r2].llm_calls[1].key = SharedKey

\* A task other than request r that is ready to take a step: a request whose
\* awaited call can return, or a background analytics task in the queue of
\* the event loop.
ReadyRequest(r2) == req[r2].pc \in {"lookup", "check", "store"}

\* C24: while one request's LLM call is outstanding, the tasks of other
\* requests and the pending background analytics tasks can take steps: the
\* LLM call is a suspension point of the request task, not a step that
\* excludes all other tasks until it returns.
C24_OthersRunDuringCall ==
  \A r \in DOMAIN req :
    req[r].pc = "invoke" =>
      /\ \A r2 \in DOMAIN req \ {r} :
           ReadyRequest(r2) => ENABLED (Lookup(r2) \/ Check(r2) \/ Store(r2))
      /\ \A task \in AllTasks : BagIn(task, tasks) => ENABLED RunTask(task)

\* What the code does instead: while a request is inside the graph, the only
\* step of the server is the return of that call.
C24_CallExcludesOthers ==
  [][\A r \in DOMAIN req :
       req[r].pc = "invoke" =>
         /\ \A r2 \in DOMAIN req \ {r} : req'[r2] = req[r2]
         /\ tasks' /= tasks => req'[r].pc /= "invoke"
         /\ analytics' = analytics
         /\ redis' = redis]_vars

\* A request is inside the graph while another request is ready.
C24_Waiting ==
  \E r, r2 \in DOMAIN req : req[r].pc = "invoke" /\ ReadyRequest(r2)

\* A request is inside the graph while an analytics task is in the queue.
C24_TaskWaiting ==
  \E r \in DOMAIN req : req[r].pc = "invoke" /\ tasks /= EmptyBag

\* The quota query of request r returns in this step.
CheckReturns(r) ==
  req[r].pc = "check" /\ req'[r].pc /= "check" /\ ~req'[r].db_error

\* Request r was admitted on the shared key with the count n and has run the
\* workflow.
AdmittedAt(r, n) ==
  /\ req[r].using_shared_key
  /\ ~IsNone(req[r].rate_limit_info)
  /\ Val(req[r].rate_limit_info).used = n
  /\ Val(req[r].rate_limit_info).allowed
  /\ req[r].llm_calls /= <<>>

\* C25: the quota check reserves nothing: it admits a request exactly when
\* the translation events already recorded for the identity are fewer than
\* L, whatever other requests of the identity are in flight, and it records
\* nothing and queues nothing. So two shared-credential requests of one
\* identity at used = L-1 can both read L-1 before either one's event is
\* recorded, both be admitted and both run the workflow.
C25_NoReservation ==
  [][\A r \in DOMAIN req :
       CheckReturns(r) =>
         /\ Val(req'[r].rate_limit_info).used = UsedToday(req[r].ip)
         /\ (req'[r].pc = "invoke")
              = (UsedToday(req[r].ip) < settings.shared_key_daily_limit)
         /\ analytics' = analytics
         /\ tasks' = tasks]_vars

\* Two requests of one identity were both admitted at used = L-1 and both
\* ran the workflow, and the events recorded for the identity today are more
\* than L.
C25_Witness ==
  \E r, r2 \in DOMAIN req :
    /\ r /= r2
    /\ req[r].ip = req[r2].ip
    /\ AdmittedAt(r, settings.shared_key_daily_limit - 1)
    /\ AdmittedAt(r2, settings.shared_key_daily_limit - 1)
    /\ UsedToday(req[r].ip) > settings.shared_key_daily_limit

\* Both requests were admitted before either one had created its analytics
\* task.
C25_BothInFlight ==
  \E r, r2 \in DOMAIN req :
    /\ r /= r2
    /\ req[r].pc = "store"
    /\ req[r2].pc = "invoke"
    /\ AdmittedAt(r, settings.shared_key_daily_limit - 1)
    /\ req[r2].using_shared_key
    /\ Val(req[r2].rate_limit_info).used = settings.shared_key_daily_limit - 1
    /\ tasks = EmptyBag

\* Request r was answered 200 by the workflow on the shared key.
SharedSuccess(r) ==
  /\ Finished(r)
  /\ Status(r) = 200
  /\ req[r].using_shared_key
  /\ ~req[r].cache_hit

\* A translation task commits its row in this step.
Recorded(task) ==
  /\ task.event_type = "translation"
  /\ CopiesIn(task, tasks') < CopiesIn(task, tasks)
  /\ analytics' /= analytics

\* C26: every shared-credential translate request that returns 200 has
\* queued exactly one recording task for the caller's identity, and its
\* X-RateLimit-Remaining header equals max(0, L - (used read by its check +
\* 1)); when a recording task runs without failure, the used count of its
\* identity rises by exactly one and that of every other identity stays;
\* and the queued tasks eventually have all run.
C26_CountsOnce ==
  /\ [](\A r \in Reqs :
          SharedSuccess(r) =>
            /\ ~IsNone(req[r].rate_limit_info)
            /\ Val(req[r].response).headers.remaining =
                 ToString(Max(0, settings.shared_key_daily_limit
                                   - (Val(req[r].rate_limit_info).used + 1)))
            /\ req[r].spawned = <<TranslationTask(req[r])>>)
  /\ [][\A task \in AllTasks :
          Recorded(task) =>
            \A ip \in IPs :
              GetSharedKeyUsageToday(analytics', HashIp(ip), now')
                = UsedToday(ip) + (IF ip = task.ip_address THEN 1 ELSE 0)]_vars
  /\ [][\A r \in Reqs :
          (req[r].pc /= "done" /\ req'[r].pc = "done" /\ SharedSuccess(r)')
            => CopiesIn(TranslationTask(req'[r]), tasks')
                 = CopiesIn(TranslationTask(req'[r]), tasks) + 1]_vars
  /\ (tasks /= EmptyBag) ~> (tasks = EmptyBag)

\* A request answered 200 on the shared key whose recording has run: the
\* identity's count is one more than the count its check read.
C26_Witness ==
  \E r \in Reqs :
    /\ SharedSuccess(r)
    /\ tasks = EmptyBag
    /\ UsedToday(req[r].ip) = Val(req[r].rate_limit_info).used + 1
    /\ Val(req[r].response).headers.remaining = "0"

\* The used count check computes for an identity after the step.
UsedAfter(ip) == GetSharedKeyUsageToday(analytics', HashIp(ip), now')

\* The row the step adds to the analytics table.
Added(e) == analytics' = analytics (+) SetToBag({e})

\* The reply of a check_shared_key_rate_limit call.
CheckReply ==
  ~IsNone(reply) /\ Val(reply).op = "check_shared_key_rate_limit"

C27_NextDay ==
  /\ CheckReply
  /\ Val(reply).args.limit = 1
  /\ Val(reply).args.at = 1
  /\ Val(reply).body[1].allowed
  /\ Val(reply).body[1].used = 0
  /\ \E e \in BagToSet(analytics) :
       /\ e.event_type = "translation"
       /\ e.ip_hash = HashIp(Val(reply).args.ip)
       /\ e.timestamp = 0


(***************************************************************************)
(* Properties of what failed requests leave behind.                        *)
(***************************************************************************)
\* The results a workflow that ended with a final output gives for a text.
ResultsOf(text) == {TranslateResponse(text, o) : o \in Outputs}

\* C28: every cache entry was written by a request whose workflow ended
\* with a final output and no error. The cache changes only in the step in
\* which such a request stores its own result under the key of its own text
\* and is answered 200; a request that ends in 422, 429, 503 or 500 has
\* written nothing; every entry holds the result of a workflow for the text
\* it was stored with, so a response served from the cache is such a result
\* and never a failure.
C28_CacheOnlySuccess ==
  /\ [][redis' /= redis =>
          \E r \in Reqs :
            /\ req[r].pc = "store"
            /\ req[r].workflow = "output"
            /\ \A i \in 1..Len(req[r].llm_calls) : ~req[r].llm_calls[i].failed
            /\ Val(req[r].response).body \in ResultsOf(req[r].text)
            /\ req'[r].pc = "done"
            /\ req'[r].cached
            /\ Val(req'[r].response).status = 200
            /\ \A k \in CacheKeys :
                 IF k = GenerateCacheKey(req[r].text)
                 THEN /\ ~IsNone(redis'[k])
                      /\ Val(redis'[k]).data = JsonDumps(Val(req[r].response).body)
                 ELSE redis'[k] = redis[k]]_vars
  /\ [][\A r \in Reqs :
          (~Finished(r) /\ Finished(r)'
             /\ Val(req'[r].response).status \in {422, 429, 503, 500}) =>
            /\ redis' = redis
            /\ ~req'[r].cached
            /\ req[r].pc /= "store"]_vars
  /\ [](\A k \in CacheKeys :
          ~IsNone(redis[k]) =>
            \E text \in Texts :
              /\ k = GenerateCacheKey(text)
              /\ JsonLoads(Val(redis[k]).data) \in ResultsOf(text))
  /\ [](\A r \in Reqs :
          (Finished(r) /\ req[r].cache_hit) =>
            /\ Status(r) = 200
            /\ \E text \in Texts : Body(r) \in ResultsOf(text))

\* C28 witness: a request whose workflow failed was answered 500 while the
\* cache holds an entry for its text, stored by an earlier request.
C28_Witness ==
  \E r \in Reqs :
    /\ Finished(r)
    /\ req[r].workflow = "error"
    /\ Status(r) = 500
    /\ ~IsNone(redis[GenerateCacheKey(req[r].text)])
    /\ JsonLoads(Val(redis[GenerateCacheKey(req[r].text)]).data)
         \in ResultsOf(req[r].text)

\* A request rejected by the quota check while the cache holds an entry.
C28_RejectedLeavesEntry ==
  \E r \in Reqs :
    /\ Finished(r)
    /\ Status(r) = 429
    /\ ~req[r].limited
    /\ \E k \in CacheKeys : ~IsNone(redis[k])


\* The translation tasks among the tasks of a sequence or in the queue.
TranslationTasks == {task \in AllTasks : task.event_type = "translation"}

\* The handler of request r returns in this step.
HandlerReturns(r) == req[r].pc /= "done" /\ req'[r].pc = "done"

C29_FailureOnlyPageView ==
  \E r \in Reqs :
    /\ req[r].pc = "sent"
    /\ Status(r) = 500
    /\ served = 1
    /\ tasks = EmptyBag
    /\ BagCardinality(analytics) = 1
    /\ \A e \in BagToSet(analytics) : e.event_type = "page_view"


\* The requests answered 200.
Translated(r) == Finished(r) /\ Status(r) = 200

\* C30: the query field of every 200 response equals the text of the
\* request that received it, whether the result was computed or served from
\* the cache, also when the entry was stored by a request whose text differs
\* only in letter case.
C30_QueryIsRequestText ==
  \A r \in Reqs : Translated(r) => Body(r).query = req[r].text

\* The query of a computed result is the text of its request.
C30_FreshQuery ==
  \A r \in Reqs :
    (Translated(r) /\ ~req[r].cache_hit) => Body(r).query = req[r].text

\* The query of a result served from the cache is the text of the request
\* that stored the entry, which lower-cases to the same text.
C30_CachedQuery ==
  /\ [][\A r \in Reqs :
          (LookupReturns(r) /\ ~IsNone(LiveEntry(req[r].text))) =>
            Val(req'[r].response).body.query = Val(LiveEntry(req[r].text)).text]_vars
  /\ [](\A r \in Reqs :
          (Translated(r) /\ req[r].cache_hit) =>
            Lower(Body(r).query) = Lower(req[r].text))

\* A request answered from an entry stored for a text in another case: the
\* query of its response is not its own text.
C30_OtherCase ==
  \E r \in Reqs :
    /\ Translated(r)
    /\ req[r].cache_hit
    /\ Body(r).query /= req[r].text
    /\ Lower(Body(r).query) = Lower(req[r].text)

=============================================================================
